---- MODULE Spec2Model ----
(***************************************************************************)
(* Request admission pipeline of the repkit.app OpenAI proxy:              *)
(*   - the in-process rate limiter            (src/lib/rate-limit.ts)      *)
(*   - the REST route                (src/app/api/ai/chat/standard)        *)
(*   - the Connect RPC interceptors and handlers                           *)
(*   - the tool schema validator              (src/unnamed/part_006)       *)
(* Times are epoch milliseconds, as in the source.                         *)
(***************************************************************************)
EXTENDS Integers, Sequences, FiniteSets, TLC

\* ------------------------------------------------------------------------
\* Bounds of the model (not program constants)
\* ------------------------------------------------------------------------
\* Date.now() when the process starts
StartNow == 1000000
\* number of 1 ms clock steps taken inside one window
MaxSmallTicks == 2
\* number of whole-window clock steps
MaxWindows == 1
\* deepest chain of nested schemas given to the validator
MaxChainDepth == 12
\* longest tool list given to validateTools
MaxToolListLen == 2
\* number of validateTools calls in one run
MaxValidateCalls == 3
\* number of 1 s clock steps taken inside one window
MaxSecondTicks == 2
\* highest count a key of the remote store is driven to
MaxRemoteCount == 3
\* process.env.RATE_LIMIT_REQUESTS_PER_HOUR as configured for the model
WITH_TOKEN == 2
\* process.env.RATE_LIMIT_REQUESTS_PER_HOUR_NO_TOKEN as configured for the model
WITHOUT_TOKEN == 1
\* ------------------------------------------------------------------------
\* Program constants
\* ------------------------------------------------------------------------
WINDOW_MS == 3600000
CLEANUP_INTERVAL_MS == 300000
\* 5 * 60 * 1000: the oldest age of a request timestamp
MAX_AGE_MS == 300000

\* ------------------------------------------------------------------------
\* State
\* ------------------------------------------------------------------------
VARIABLES
  now,            \* Date.now()
  rateLimitStore, \* Map<string, RateLimitEntry>: identifier -> [count, resetAt]
  lastCleanupAt,  \* time of the last lazy cleanup
  lastCheck,      \* the last direct checkRateLimit call: its arguments, the state it saw, its result
  windowLog,      \* per identifier: what the checks of the current window have done
  lastSchema,     \* the last validateToolSchema call: its tool and its result
  validationCache,\* Map<string, string[]>: tools hash -> cached errors
  lastValidation, \* the last direct validateTools call: its tools and its result
  hmacSecret,     \* process.env.HMAC_SECRET ("" when not configured)
  slots,          \* the requests being handled: inputs, position in the handler, results
  redisClient,    \* whether createRedisClient() returned a client
  redisStore,     \* the keys of the remote store: <<identifier, window id>> -> [count, expiresAt, firstExpiresAt]
  lastRemote,     \* the last checkRateLimit call made with a client: its arguments and its result
  environment     \* process.env.NODE_ENV and process.env.LOG_HASH_KEY ("" when not set)

limiterVars == <<rateLimitStore, lastCleanupAt>>
schemaVars == <<lastSchema, validationCache, lastValidation>>
requestVars == <<hmacSecret, slots>>
remoteVars == <<redisClient, redisStore, lastRemote, environment>>
vars == <<now, rateLimitStore, lastCleanupAt, lastCheck, windowLog, lastSchema,
          validationCache, lastValidation, hmacSecret, slots,
          redisClient, redisStore, lastRemote, environment>>

\* ------------------------------------------------------------------------
\* src/lib/rate-limit.ts
\* ------------------------------------------------------------------------
NoEntry == [count |-> 0, resetAt |-> 0]

\* rateLimitStore.get(identifier), NoEntry when absent
StoreGet(store, identifier) ==
  IF identifier \in DOMAIN store THEN store[identifier] ELSE NoEntry

\* rateLimitStore.set(identifier, entry)
StoreSet(store, identifier, entry) ==
  [k \in (DOMAIN store) \cup {identifier} |->
     IF k = identifier THEN entry ELSE store[k]]

\* cleanupExpired as it would be if it emptied the store when it runs
cleanupExpired_deleteAll(store, last, t) ==
  IF t - last < CLEANUP_INTERVAL_MS
  THEN [store |-> store, last |-> last]
  ELSE [store |-> << >>, last |-> t]

\* cleanupExpired(now): at most once every 5 minutes, deletes expired entries
cleanupExpired(store, last, t) ==
  IF t - last < CLEANUP_INTERVAL_MS
  THEN [store |-> store, last |-> last]
  ELSE [store |-> [k \in {i \in DOMAIN store : ~(t > store[i].resetAt)} |-> store[k]],
        last  |-> t]

\* checkRateLimitMemory as it would be if a rejection reported a window
\* starting at the rejected request
checkRateLimitMemory_denyNewReset(store, last, identifier, limit, t) ==
  LET c      == cleanupExpired(store, last, t)
      fresh  == (identifier \notin DOMAIN c.store) \/ (t > c.store[identifier].resetAt)
      entry  == IF fresh THEN [count |-> 0, resetAt |-> t + WINDOW_MS]
                         ELSE c.store[identifier]
      store1 == IF fresh THEN StoreSet(c.store, identifier, entry) ELSE c.store
  IN IF entry.count >= limit
     THEN [store |-> store1, last |-> c.last,
           info  |-> [allowed |-> FALSE, limit |-> limit, remaining |-> 0,
                      resetAt |-> t + WINDOW_MS]]
     ELSE [store |-> StoreSet(store1, identifier,
                              [count |-> entry.count + 1, resetAt |-> entry.resetAt]),
           last  |-> c.last,
           info  |-> [allowed |-> TRUE, limit |-> limit,
                      remaining |-> limit - (entry.count + 1),
                      resetAt |-> entry.resetAt]]

\* checkRateLimitMemory as it would be if the window ended at now >= resetAt
checkRateLimitMemory_resetAtBoundary(store, last, identifier, limit, t) ==
  LET c      == cleanupExpired(store, last, t)
      fresh  == (identifier \notin DOMAIN c.store) \/ (t >= c.store[identifier].resetAt)
      entry  == IF fresh THEN [count |-> 0, resetAt |-> t + WINDOW_MS]
                         ELSE c.store[identifier]
      store1 == IF fresh THEN StoreSet(c.store, identifier, entry) ELSE c.store
  IN IF entry.count >= limit
     THEN [store |-> store1, last |-> c.last,
           info  |-> [allowed |-> FALSE, limit |-> limit, remaining |-> 0,
                      resetAt |-> entry.resetAt]]
     ELSE [store |-> StoreSet(store1, identifier,
                              [count |-> entry.count + 1, resetAt |-> entry.resetAt]),
           last  |-> c.last,
           info  |-> [allowed |-> TRUE, limit |-> limit,
                      remaining |-> limit - (entry.count + 1),
                      resetAt |-> entry.resetAt]]

\* checkRateLimitMemory as it would be if the incremented entry were not
\* written back to the store
checkRateLimitMemory_lostIncrement(store, last, identifier, limit, t) ==
  LET c      == cleanupExpired(store, last, t)
      fresh  == (identifier \notin DOMAIN c.store) \/ (t > c.store[identifier].resetAt)
      entry  == IF fresh THEN [count |-> 0, resetAt |-> t + WINDOW_MS]
                         ELSE c.store[identifier]
      store1 == IF fresh THEN StoreSet(c.store, identifier, entry) ELSE c.store
  IN IF entry.count >= limit
     THEN [store |-> store1, last |-> c.last,
           info  |-> [allowed |-> FALSE, limit |-> limit, remaining |-> 0,
                      resetAt |-> entry.resetAt]]
     ELSE [store |-> IF fresh
                     THEN StoreSet(store1, identifier,
                                   [count |-> 1, resetAt |-> entry.resetAt])
                     ELSE store1,
           last  |-> c.last,
           info  |-> [allowed |-> TRUE, limit |-> limit,
                      remaining |-> limit - (entry.count + 1),
                      resetAt |-> entry.resetAt]]

\* checkRateLimitMemory as it would be if a rejected check were counted too
checkRateLimitMemory_countRejected(store, last, identifier, limit, t) ==
  LET c      == cleanupExpired(store, last, t)
      fresh  == (identifier \notin DOMAIN c.store) \/ (t > c.store[identifier].resetAt)
      entry  == IF fresh THEN [count |-> 0, resetAt |-> t + WINDOW_MS]
                         ELSE c.store[identifier]
      store1 == StoreSet(c.store, identifier,
                         [count |-> entry.count + 1, resetAt |-> entry.resetAt])
  IN IF entry.count >= limit
     THEN [store |-> store1, last |-> c.last,
           info  |-> [allowed |-> FALSE, limit |-> limit, remaining |-> 0,
                      resetAt |-> entry.resetAt]]
     ELSE [store |-> store1, last |-> c.last,
           info  |-> [allowed |-> TRUE, limit |-> limit,
                      remaining |-> limit - (entry.count + 1),
                      resetAt |-> entry.resetAt]]

\* checkRateLimitMemory(identifier, limit, now)
checkRateLimitMemory(store, last, identifier, limit, t) ==
  LET c      == cleanupExpired(store, last, t)
      fresh  == (identifier \notin DOMAIN c.store) \/ (t > c.store[identifier].resetAt)
      entry  == IF fresh THEN [count |-> 0, resetAt |-> t + WINDOW_MS]
                         ELSE c.store[identifier]
      store1 == IF fresh THEN StoreSet(c.store, identifier, entry) ELSE c.store
  IN IF entry.count >= limit
     THEN [store |-> store1, last |-> c.last,
           info  |-> [allowed |-> FALSE, limit |-> limit, remaining |-> 0,
                      resetAt |-> entry.resetAt]]
     ELSE [store |-> StoreSet(store1, identifier,
                              [count |-> entry.count + 1, resetAt |-> entry.resetAt]),
           last  |-> c.last,
           info  |-> [allowed |-> TRUE, limit |-> limit,
                      remaining |-> limit - (entry.count + 1),
                      resetAt |-> entry.resetAt]]

\* RATE_LIMITS.WITH_TOKEN / RATE_LIMITS.WITHOUT_TOKEN
LimitFor(hasDeviceToken) == IF hasDeviceToken THEN WITH_TOKEN ELSE WITHOUT_TOKEN

\* checkRateLimit(identifier, hasDeviceToken) with no remote store configured
checkRateLimit(store, last, identifier, hasDeviceToken, t) ==
  checkRateLimitMemory(store, last, identifier, LimitFor(hasDeviceToken), t)

\* `ratelimit:${identifier}:${windowStart}`
RedisKey(identifier, t) == <<identifier, t \div WINDOW_MS>>

\* a key the remote store does not hold. firstExpiresAt is not part of the
\* store: it records the expiry the key was given when it was created

\* the value of key at time t; a key whose expiry has passed is gone
RedisGet(redis, key, t) ==
  IF key \in DOMAIN redis /\ redis[key].expiresAt > t THEN redis[key]
  ELSE [count |-> 0, expiresAt |-> 0, firstExpiresAt |-> 0]

\* the pipeline INCR key, PEXPIRE key WINDOW_MS, PTTL key run by the remote
\* store at time t: the store after it and the replies to INCR and PTTL
RedisPipeline(redis, key, t) ==
  LET old == RedisGet(redis, key, t)
      entry == [count |-> old.count + 1,
                expiresAt |-> t + WINDOW_MS,
                firstExpiresAt |-> IF old.count = 0 THEN t + WINDOW_MS
                                   ELSE old.firstExpiresAt]
  IN [redis |-> StoreSet(redis, key, entry),
      incr |-> entry.count,
      pttl |-> entry.expiresAt - t]

\* checkRateLimitRedis as it would be if an error of the remote store were
\* passed on to the caller
checkRateLimitRedis_failClosed(redis, store, last, identifier, limit, t, outcome) ==
  LET p == RedisPipeline(redis, RedisKey(identifier, t), t)
      ttlMs == IF p.pttl > 0 THEN p.pttl ELSE WINDOW_MS
      resetAt == t + ttlMs
  IN IF outcome = "ok"
     THEN [redis |-> p.redis, store |-> store, last |-> last, threw |-> FALSE,
           info |-> IF p.incr > limit
                    THEN [allowed |-> FALSE, limit |-> limit, remaining |-> 0,
                          resetAt |-> resetAt]
                    ELSE [allowed |-> TRUE, limit |-> limit,
                          remaining |-> IF limit - p.incr > 0 THEN limit - p.incr ELSE 0,
                          resetAt |-> resetAt]]
     ELSE [redis |-> IF outcome = "reply_lost" THEN p.redis ELSE redis,
           store |-> store, last |-> last, threw |-> TRUE,
           info |-> [allowed |-> FALSE, limit |-> limit, remaining |-> 0,
                     resetAt |-> 0]]

\* checkRateLimitRedis(client, identifier, limit, now): the remote store, the
\* in-process store and the result after the call, and whether it threw
checkRateLimitRedis(redis, store, last, identifier, limit, t, outcome) ==
  LET p == RedisPipeline(redis, RedisKey(identifier, t), t)
      ttlMs == IF p.pttl > 0 THEN p.pttl ELSE WINDOW_MS
      resetAt == t + ttlMs
      fallback == checkRateLimitMemory(store, last, identifier, limit, t)
  IN IF outcome = "ok"
     THEN [redis |-> p.redis, store |-> store, last |-> last, threw |-> FALSE,
           info |-> IF p.incr > limit
                    THEN [allowed |-> FALSE, limit |-> limit, remaining |-> 0,
                          resetAt |-> resetAt]
                    ELSE [allowed |-> TRUE, limit |-> limit,
                          remaining |-> IF limit - p.incr > 0 THEN limit - p.incr ELSE 0,
                          resetAt |-> resetAt]]
     ELSE [redis |-> IF outcome = "reply_lost" THEN p.redis ELSE redis,
           store |-> fallback.store, last |-> fallback.last, threw |-> FALSE,
           info |-> fallback.info]

\* ------------------------------------------------------------------------
\* src/unnamed/part_006: tool schema validation
\*
\* A ToolSchema_Property is [type, additionalProperties, properties, required,
\* items]: additionalProperties is "absent", "true" or "false"; properties is
\* the map in key order, a sequence of [name, prop]; items is << >> or <<prop>>.
\* A Tool is [name, description, hasParameters, parameters, strict]; a name is
\* the sequence of its characters.  An error message is represented by the
\* facts it states: [kind, tool, path, field, names], path being the dotted
\* path split at its dots.
\* ------------------------------------------------------------------------
MAX_SCHEMA_DEPTH == 10

VALID_TYPES == {"string", "number", "integer", "boolean", "array", "object"}

\* the characters TOOL_NAME_PATTERN accepts
NameCharset ==
  {"a","b","c","d","e","f","g","h","i","j","k","l","m","n","o","p","q","r","s",
   "t","u","v","w","x","y","z","A","B","C","D","E","F","G","H","I","J","K","L",
   "M","N","O","P","Q","R","S","T","U","V","W","X","Y","Z","0","1","2","3","4",
   "5","6","7","8","9","_","-"}

\* the pattern as it would be without its end anchor: a leading run of
\* accepted characters is enough
TOOL_NAME_PATTERN_unanchored(name) ==
  Len(name) >= 1 /\ name[1] \in NameCharset

\* TOOL_NAME_PATTERN.test(name)
TOOL_NAME_PATTERN(name) ==
  Len(name) >= 1 /\ \A i \in 1..Len(name) : name[i] \in NameCharset

\* names every plain object answers to through Object.prototype
ObjectPrototypeKeys ==
  {"constructor", "toString", "valueOf", "hasOwnProperty", "isPrototypeOf",
   "propertyIsEnumerable", "toLocaleString", "__proto__"}

\* Object.keys(properties)
Keys(properties) == [i \in 1..Len(properties) |-> properties[i].name]

SeqToSet(q) == {q[i] : i \in 1..Len(q)}

\* the truthiness of properties[name]
HasProperty(properties, name) ==
  name \in SeqToSet(Keys(properties)) \/ name \in ObjectPrototypeKeys

\* names.filter(name => !list.includes(name))
NotIncluded(names, list) == SelectSeq(names, LAMBDA n : n \notin SeqToSet(list))

Err(kind, tool, path, field, names) ==
  [kind |-> kind, tool |-> tool, path |-> path, field |-> field, names |-> names]

\* validateProperty as it would be if strict mode were checked at the top level only
validatePropertyNode_rootStrictOnly(prop, path, toolName, depth, strictMode) ==
  IF depth > MAX_SCHEMA_DEPTH
  THEN [errors |-> <<Err("depth_exceeded", toolName, path, "", << >>)>>,
        children |-> << >>]
  ELSE
    LET hasProps == Len(prop.properties) > 0
        typeErr == IF prop.type = "" \/ prop.type \notin VALID_TYPES
                   THEN <<Err("invalid_type", toolName, path, prop.type, << >>)>>
                   ELSE << >>
        strictObj == FALSE
        addlErr == IF strictObj /\ prop.additionalProperties # "false"
                   THEN <<Err("strict_additional", toolName, path, "", << >>)>>
                   ELSE << >>
        missing == NotIncluded(Keys(prop.properties), prop.required)
        reqAllErr == IF strictObj /\ hasProps /\ Len(missing) > 0
                     THEN <<Err("strict_required", toolName, path, "", missing)>>
                     ELSE << >>
        notFound == SelectSeq(prop.required,
                              LAMBDA f : ~HasProperty(prop.properties, f))
        reqErrs == IF hasProps
                   THEN [i \in 1..Len(notFound) |->
                           Err("required_not_found", toolName, path, notFound[i],
                               Keys(prop.properties))]
                   ELSE << >>
        nested == IF hasProps
                  THEN [i \in 1..Len(prop.properties) |->
                          [prop |-> prop.properties[i].prop,
                           path |-> Append(path, prop.properties[i].name)]]
                  ELSE << >>
        item == IF Len(prop.items) > 0
                THEN <<[prop |-> prop.items[1], path |-> Append(path, "items")]>>
                ELSE << >>
    IN [errors |-> typeErr \o addlErr \o reqAllErr \o reqErrs,
        children |-> nested \o item]

\* validateProperty as it would be without its depth check
validatePropertyNode_noDepthLimit(prop, path, toolName, depth, strictMode) ==
  IF FALSE
  THEN [errors |-> <<Err("depth_exceeded", toolName, path, "", << >>)>>,
        children |-> << >>]
  ELSE
    LET hasProps == Len(prop.properties) > 0
        typeErr == IF prop.type = "" \/ prop.type \notin VALID_TYPES
                   THEN <<Err("invalid_type", toolName, path, prop.type, << >>)>>
                   ELSE << >>
        strictObj == strictMode /\ prop.type = "object"
        addlErr == IF strictObj /\ prop.additionalProperties # "false"
                   THEN <<Err("strict_additional", toolName, path, "", << >>)>>
                   ELSE << >>
        missing == NotIncluded(Keys(prop.properties), prop.required)
        reqAllErr == IF strictObj /\ hasProps /\ Len(missing) > 0
                     THEN <<Err("strict_required", toolName, path, "", missing)>>
                     ELSE << >>
        notFound == SelectSeq(prop.required,
                              LAMBDA f : ~HasProperty(prop.properties, f))
        reqErrs == IF hasProps
                   THEN [i \in 1..Len(notFound) |->
                           Err("required_not_found", toolName, path, notFound[i],
                               Keys(prop.properties))]
                   ELSE << >>
        nested == IF hasProps
                  THEN [i \in 1..Len(prop.properties) |->
                          [prop |-> prop.properties[i].prop,
                           path |-> Append(path, prop.properties[i].name)]]
                  ELSE << >>
        item == IF Len(prop.items) > 0
                THEN <<[prop |-> prop.items[1], path |-> Append(path, "items")]>>
                ELSE << >>
    IN [errors |-> typeErr \o addlErr \o reqAllErr \o reqErrs,
        children |-> nested \o item]

\* the body of validateProperty for one node: the errors it pushes itself and
\* the nodes it recurses into (each at depth + 1)
validatePropertyNode(prop, path, toolName, depth, strictMode) ==
  IF depth > MAX_SCHEMA_DEPTH
  THEN [errors |-> <<Err("depth_exceeded", toolName, path, "", << >>)>>,
        children |-> << >>]
  ELSE
    LET hasProps == Len(prop.properties) > 0
        typeErr == IF prop.type = "" \/ prop.type \notin VALID_TYPES
                   THEN <<Err("invalid_type", toolName, path, prop.type, << >>)>>
                   ELSE << >>
        strictObj == strictMode /\ prop.type = "object"
        addlErr == IF strictObj /\ prop.additionalProperties # "false"
                   THEN <<Err("strict_additional", toolName, path, "", << >>)>>
                   ELSE << >>
        missing == NotIncluded(Keys(prop.properties), prop.required)
        reqAllErr == IF strictObj /\ hasProps /\ Len(missing) > 0
                     THEN <<Err("strict_required", toolName, path, "", missing)>>
                     ELSE << >>
        notFound == SelectSeq(prop.required,
                              LAMBDA f : ~HasProperty(prop.properties, f))
        reqErrs == IF hasProps
                   THEN [i \in 1..Len(notFound) |->
                           Err("required_not_found", toolName, path, notFound[i],
                               Keys(prop.properties))]
                   ELSE << >>
        nested == IF hasProps
                  THEN [i \in 1..Len(prop.properties) |->
                          [prop |-> prop.properties[i].prop,
                           path |-> Append(path, prop.properties[i].name)]]
                  ELSE << >>
        item == IF Len(prop.items) > 0
                THEN <<[prop |-> prop.items[1], path |-> Append(path, "items")]>>
                ELSE << >>
    IN [errors |-> typeErr \o addlErr \o reqAllErr \o reqErrs,
        children |-> nested \o item]

RECURSIVE validateProperty(_, _, _, _, _)
RECURSIVE validateChildren(_, _, _, _)

\* validateProperty(prop, path, toolName, depth, strictMode)
validateProperty(prop, path, toolName, depth, strictMode) ==
  LET n == validatePropertyNode(prop, path, toolName, depth, strictMode)
  IN n.errors \o validateChildren(n.children, toolName, depth + 1, strictMode)

\* the recursive calls of validateProperty, in order
validateChildren(children, toolName, depth, strictMode) ==
  IF children = << >> THEN << >>
  ELSE validateProperty(Head(children).prop, Head(children).path, toolName,
                        depth, strictMode)
       \o validateChildren(Tail(children), toolName, depth, strictMode)

\* validateToolSchema(tool)
validateToolSchema(tool) ==
  LET nameErr == IF Len(tool.name) = 0
                 THEN <<Err("name_required", tool.name, << >>, "", << >>)>>
                 ELSE IF ~TOOL_NAME_PATTERN(tool.name)
                 THEN <<Err("name_invalid", tool.name, << >>, "", << >>)>>
                 ELSE << >>
      descErr == IF tool.description = ""
                 THEN <<Err("description_required", tool.name, << >>, "", << >>)>>
                 ELSE << >>
      schema == tool.parameters
      notFound == SelectSeq(schema.required,
                            LAMBDA f : ~HasProperty(schema.properties, f))
      reqErrs == [i \in 1..Len(notFound) |->
                    Err("root_required_not_found", tool.name, << >>, notFound[i], << >>)]
      strictMode == tool.strict = TRUE
      addlErr == IF strictMode /\ schema.additionalProperties # "false"
                 THEN <<Err("root_strict_additional", tool.name, << >>, "", << >>)>>
                 ELSE << >>
      missing == NotIncluded(Keys(schema.properties), schema.required)
      reqAllErr == IF strictMode /\ Len(missing) > 0
                   THEN <<Err("root_strict_required", tool.name, << >>, "", missing)>>
                   ELSE << >>
      top == [i \in 1..Len(schema.properties) |->
                [prop |-> schema.properties[i].prop,
                 path |-> <<schema.properties[i].name>>]]
  IN IF ~tool.hasParameters THEN nameErr \o descErr
     ELSE IF Len(schema.properties) = 0
     THEN nameErr \o descErr
          \o <<Err("properties_required", tool.name, << >>, "", << >>)>>
     ELSE nameErr \o descErr \o reqErrs \o addlErr \o reqAllErr
          \o validateChildren(top, tool.name, 0, strictMode)

\* ------------------------------------------------------------------------
\* Conversion of a tool to the upstream format.  A conversion yields
\* [error, value]: error is "none" when it returns value, and otherwise names
\* the Error it throws ("depth" or "invalid_type").
\* ------------------------------------------------------------------------
\* MAX_SCHEMA_DEPTH of the converter module
CONVERTER_MAX_SCHEMA_DEPTH == 10

VALID_PROPERTY_TYPES == {"string", "number", "integer", "boolean", "array", "object"}

isValidPropertyType(value) == value \in VALID_PROPERTY_TYPES

Thrown(error) == [error |-> error, value |-> << >>]
Returned(value) == [error |-> "none", value |-> value]

\* the property convertProperty returns once its children are converted:
\* properties and required are set only for a non-empty properties map,
\* enum only when non-empty, additionalProperties only when defined
ConvertedProperty(prop, properties, items) ==
  [type |-> prop.type,
   description |-> prop.description,
   enum |-> prop.enum,
   hasProperties |-> Len(prop.properties) > 0,
   properties |-> properties,
   required |-> IF Len(prop.properties) > 0 THEN prop.required ELSE << >>,
   items |-> items,
   additionalProperties |-> prop.additionalProperties]

RECURSIVE convertProperty_deeperLimit(_, _)
RECURSIVE convertProperties_deeperLimit(_, _)

\* convertProperty as it would be with a depth limit one above the validator's
convertProperty_deeperLimit(prop, depth) ==
  IF depth > CONVERTER_MAX_SCHEMA_DEPTH + 1 THEN Thrown("depth")
  ELSE IF ~isValidPropertyType(prop.type) THEN Thrown("invalid_type")
  ELSE
    LET nested == IF Len(prop.properties) > 0
                  THEN convertProperties_deeperLimit(prop.properties, depth + 1)
                  ELSE Returned(<< >>)
        item == IF Len(prop.items) > 0
                THEN convertProperty_deeperLimit(prop.items[1], depth + 1)
                ELSE Returned(<< >>)
    IN IF nested.error # "none" THEN nested
       ELSE IF item.error # "none" THEN item
       ELSE Returned(ConvertedProperty(prop, nested.value,
                       IF Len(prop.items) > 0 THEN <<item.value>> ELSE << >>))

convertProperties_deeperLimit(protoProps, depth) ==
  IF protoProps = << >> THEN Returned(<< >>)
  ELSE
    LET first == convertProperty_deeperLimit(Head(protoProps).prop, depth)
        rest == convertProperties_deeperLimit(Tail(protoProps), depth)
    IN IF first.error # "none" THEN first
       ELSE IF rest.error # "none" THEN rest
       ELSE Returned(<<[name |-> Head(protoProps).name, prop |-> first.value]>>
                     \o rest.value)

RECURSIVE convertProperty(_, _)
RECURSIVE convertProperties(_, _)

\* convertProperty(prop, depth)
convertProperty(prop, depth) ==
  IF depth > CONVERTER_MAX_SCHEMA_DEPTH THEN Thrown("depth")
  ELSE IF ~isValidPropertyType(prop.type) THEN Thrown("invalid_type")
  ELSE
    LET nested == IF Len(prop.properties) > 0
                  THEN convertProperties(prop.properties, depth + 1)
                  ELSE Returned(<< >>)
        item == IF Len(prop.items) > 0
                THEN convertProperty(prop.items[1], depth + 1)
                ELSE Returned(<< >>)
    IN IF nested.error # "none" THEN nested
       ELSE IF item.error # "none" THEN item
       ELSE Returned(ConvertedProperty(prop, nested.value,
                       IF Len(prop.items) > 0 THEN <<item.value>> ELSE << >>))

\* convertProperties(protoProps, depth): the entries in order, the first
\* throw ending the conversion
convertProperties(protoProps, depth) ==
  IF protoProps = << >> THEN Returned(<< >>)
  ELSE
    LET first == convertProperty(Head(protoProps).prop, depth)
        rest == convertProperties(Tail(protoProps), depth)
    IN IF first.error # "none" THEN first
       ELSE IF rest.error # "none" THEN rest
       ELSE Returned(<<[name |-> Head(protoProps).name, prop |-> first.value]>>
                     \o rest.value)

\* protoToOpenAITool(tool) of the converter module
protoToOpenAITool(tool) ==
  LET converted == IF tool.hasParameters
                   THEN convertProperties(tool.parameters.properties, 0)
                   ELSE Returned(<< >>)
  IN IF converted.error # "none" THEN converted
     ELSE Returned(
            [type |-> "function",
             name |-> tool.name,
             description |-> tool.description,
             parameters |->
               [type |-> "object",
                properties |-> converted.value,
                required |-> IF tool.hasParameters THEN tool.parameters.required
                             ELSE << >>,
                additionalProperties |->
                  IF tool.hasParameters THEN tool.parameters.additionalProperties
                  ELSE "absent"],
             strict |-> tool.strict])

\* protoToOpenAITool(tool) of the handler module, the one that
\* validateAndConvertRequest maps over the tools of a request: the properties
\* map and the required list are handed on as they are, and the parameters
\* carry no other member
handlerProtoToOpenAITool(tool) ==
  [type |-> "function",
   name |-> tool.name,
   description |-> tool.description,
   hasParameters |-> tool.hasParameters,
   parameters |-> [type |-> "object",
                   properties |-> tool.parameters.properties,
                   required |-> tool.parameters.required,
                   additionalProperties |-> "absent"],
   strict |-> tool.strict]

\* `${t.name}|${t.description}|${JSON.stringify(t.parameters)}`: the part of a
\* tool that enters the cache key; the strict flag is not in it
ToolString(t) ==
  <<t.name, t.description, IF t.hasParameters THEN <<t.parameters>> ELSE << >>>>

\* getToolsHash(tools): the digest of the sorted tool strings, that is, of the
\* tool strings with their multiplicities and without their order
getToolsHash(tools) ==
  LET strings == {ToolString(tools[i]) : i \in 1..Len(tools)}
  IN [str \in strings |->
        Cardinality({i \in 1..Len(tools) : ToolString(tools[i]) = str})]

RECURSIVE validateEach(_)
\* the loop of validateTools: the errors of each tool, in tool order
validateEach(tools) ==
  IF tools = << >> THEN << >>
  ELSE validateToolSchema(Head(tools)) \o validateEach(Tail(tools))

\* validationCache.has / validationCache.get
CacheHas(cache, hash) == \E i \in 1..Len(cache) : cache[i].hash = hash
CacheGet(cache, hash) ==
  CHOOSE i \in 1..Len(cache) : cache[i].hash = hash

\* validateTools(tools) on the cache: the errors returned and the cache after.
\* A cached array, empty or not, is truthy and is returned as a copy
\* ([...cached]); on a miss the array that is returned is the array that was
\* put into the cache (aliased).
validateTools(cache, tools) ==
  LET toolsHash == getToolsHash(tools)
  IN IF CacheHas(cache, toolsHash)
     THEN [errors |-> cache[CacheGet(cache, toolsHash)].errors, cache |-> cache,
           aliased |-> FALSE]
     ELSE LET errors == validateEach(tools)
          IN [errors |-> errors,
              cache |-> Append(cache, [hash |-> toolsHash, errors |-> errors]),
              aliased |-> TRUE]

\* ------------------------------------------------------------------------
\* Tools given to the validator
\* ------------------------------------------------------------------------
Prop(type, addl, props, req, items) ==
  [type |-> type, additionalProperties |-> addl, properties |-> props,
   required |-> req, items |-> items, description |-> "", enum |-> << >>]

\* the same property carrying a description and a list of enum values
Described(prop, description, enum) ==
  [prop EXCEPT !.description = description, !.enum = enum]

Leaf(type) == Prop(type, "absent", << >>, << >>, << >>)

Entry(name, prop) == [name |-> name, prop |-> prop]

Schema(props, req, addl) ==
  [properties |-> props, required |-> req, additionalProperties |-> addl]

NoParameters == Schema(<< >>, << >>, "absent")

Tool(name, description, hasParameters, parameters, strict) ==
  [name |-> name, description |-> description, hasParameters |-> hasParameters,
   parameters |-> parameters, strict |-> strict]

AdditionalValues == {"absent", "false", "true"}
GoodName == <<"g", "e", "t", "_", "1">>
BadName == <<"g", " ", "t">>
\* names of the name tests: mixed case with digits and both separators, and
\* names with punctuation or a letter outside ASCII
ToolNames ==
  {GoodName, BadName, << >>, <<"T", "_", "1", "-", "a">>, <<"g", "!">>,
   <<"g", ".", "t">>, <<"f", "å">>}

\* trees of up to three levels below the root, built level by level
TreeTools ==
  LET LeafProps == {Leaf("string"), Leaf("bogus")}
      BareObjects ==
        {Prop("object", ad, << >>, r, << >>) :
           ad \in AdditionalValues, r \in {<< >>, <<"zz">>}}
      Level0 == LeafProps \cup BareObjects

      RequiredLists == {<< >>, <<"a">>, <<"a", "zz">>, <<"a", "b">>, <<"constructor">>}
      PropertyMaps ==
        {<<Entry("a", p)>> : p \in Level0}
        \cup {<<Entry("a", p), Entry("b", q)>> : p \in LeafProps, q \in LeafProps}
      Level1 ==
        {Prop("object", ad, m, r, << >>) :
           ad \in AdditionalValues, m \in PropertyMaps, r \in RequiredLists}
        \cup {Prop("string", "absent", m, << >>, << >>) : m \in PropertyMaps}
        \cup {Prop("array", "absent", << >>, << >>, <<p>>) : p \in Level0}
      Level2 ==
        {Prop("object", ad, <<Entry("a", p)>>, <<"a">>, << >>) :
           ad \in {"absent", "false"}, p \in Level1}
        \cup {Prop("array", "absent", << >>, << >>, <<p>>) : p \in Level1}

      RootMaps ==
        {<<Entry("a", p)>> : p \in Level0 \cup Level1 \cup Level2}
        \cup {<<Entry("a", p), Entry("b", q)>> : p \in LeafProps, q \in LeafProps}
        \cup {<< >>}
  IN {Tool(GoodName, "d", TRUE, Schema(m, r, ad), st) :
        m \in RootMaps, r \in {<< >>, <<"a">>, <<"a", "zz">>},
        ad \in {"absent", "false"}, st \in BOOLEAN}

HeaderTools ==
  {Tool(n, d, hp, IF hp THEN Schema(<<Entry("a", Leaf("string"))>>, <<"a">>, "false")
                        ELSE NoParameters, st) :
     n \in ToolNames, d \in {"", "d"}, hp \in BOOLEAN,
     st \in BOOLEAN}

RECURSIVE Chain(_, _, _)
\* a schema nested n levels deep through properties or through items
Chain(n, via, wellFormed) ==
  IF n = 0 THEN Leaf("string")
  ELSE IF via = "items"
  THEN Prop("array", "absent", << >>, << >>, <<Chain(n - 1, via, wellFormed)>>)
  ELSE Prop("object", IF wellFormed THEN "false" ELSE "absent",
            <<Entry("nested", Chain(n - 1, via, wellFormed))>>,
            IF wellFormed THEN <<"nested">> ELSE << >>, << >>)

ChainTools ==
  {Tool(GoodName, "d", TRUE,
        Schema(<<Entry("deep", Chain(n, via, wf))>>, <<"deep">>, "false"), st) :
     n \in 0..MaxChainDepth, via \in {"properties", "items"},
     wf \in BOOLEAN, st \in BOOLEAN}

\* tools whose properties carry descriptions and enum values
DescribedTools ==
  LET DescribedLeafs ==
        {Described(Leaf("string"), d, e) :
           d \in {"", "city"}, e \in {<< >>, <<"c", "f">>}}
      DescribedProps ==
        DescribedLeafs
        \cup {Described(Prop("object", ad, <<Entry("unit", p)>>, r, << >>), "where", << >>) :
                ad \in AdditionalValues, p \in DescribedLeafs, r \in {<< >>, <<"unit">>}}
        \cup {Prop("array", "absent", << >>, << >>, <<p>>) : p \in DescribedLeafs}
  IN {Tool(GoodName, "d", TRUE, Schema(<<Entry("location", p)>>, r, ad), st) :
        p \in DescribedProps, r \in {<< >>, <<"location">>},
        ad \in AdditionalValues, st \in BOOLEAN}


\* ------------------------------------------------------------------------
\* Specification of the validator alone: validateToolSchema on one tool
\* ------------------------------------------------------------------------
ValidateSchema(tool) ==
  /\ ~lastSchema.called
  /\ lastSchema' = [called |-> TRUE, tool |-> tool, errors |-> validateToolSchema(tool),
                    converted |-> protoToOpenAITool(tool),
                    sent |-> handlerProtoToOpenAITool(tool)]
  /\ UNCHANGED <<now, rateLimitStore, lastCleanupAt, lastCheck, windowLog,
                 validationCache, lastValidation>>
  /\ UNCHANGED requestVars
  /\ UNCHANGED remoteVars

ValidateTree == \E tool \in TreeTools : ValidateSchema(tool)
ValidateHeader == \E tool \in HeaderTools : ValidateSchema(tool)
ValidateChain == \E tool \in ChainTools : ValidateSchema(tool)
ValidateDescribed == \E tool \in DescribedTools : ValidateSchema(tool)

NextSchema == ValidateTree \/ ValidateHeader \/ ValidateChain \/ ValidateDescribed

\* ------------------------------------------------------------------------
\* Specification of validateTools and its cache: a sequence of calls
\* ------------------------------------------------------------------------
LooseParameters == Schema(<<Entry("a", Leaf("string"))>>, <<"a">>, "absent")
\* a valid tool, the same tool in strict mode, and a tool with two errors
PlainTool == Tool(GoodName, "d", TRUE, LooseParameters, FALSE)
StrictTool == Tool(GoodName, "d", TRUE, LooseParameters, TRUE)
BrokenTool == Tool(BadName, "", FALSE, NoParameters, FALSE)

ValidateToolsCall(tools) ==
  /\ lastValidation.calls < MaxValidateCalls
  /\ LET r == validateTools(validationCache, tools)
     IN /\ validationCache' = r.cache
        /\ lastValidation' = [called |-> TRUE, calls |-> lastValidation.calls + 1,
                              tools |-> tools, errors |-> r.errors,
                              hit |-> CacheHas(validationCache, getToolsHash(tools)),
                              aliased |-> r.aliased, mutated |-> FALSE]
  /\ UNCHANGED <<now, rateLimitStore, lastCleanupAt, lastCheck, windowLog, lastSchema>>
  /\ UNCHANGED requestVars
  /\ UNCHANGED remoteVars


\* the caller changes the array validateTools has returned to it: it empties
\* it (errors.length = 0) or pushes a message of its own.  An array is an
\* object: where the cache holds the same array, the cache entry changes
\* with it.
MutateReturned ==
  /\ lastValidation.called /\ ~lastValidation.mutated
  /\ \E changed \in {<< >>, Append(lastValidation.errors,
                                    Err("caller", << >>, << >>, "", << >>))} :
       /\ changed # lastValidation.errors
       /\ lastValidation' = [lastValidation EXCEPT !.errors = changed,
                                                    !.mutated = TRUE]
       /\ validationCache' =
            IF lastValidation.aliased
            THEN [validationCache EXCEPT
                    ![CacheGet(validationCache, getToolsHash(lastValidation.tools))].errors
                      = changed]
            ELSE validationCache
  /\ UNCHANGED <<now, rateLimitStore, lastCleanupAt, lastCheck, windowLog, lastSchema>>
  /\ UNCHANGED requestVars
  /\ UNCHANGED remoteVars

NextValidator ==
  \/ \E tools \in UNION {[1..n -> {PlainTool, StrictTool, BrokenTool}] :
                         n \in 0..MaxToolListLen} : ValidateToolsCall(tools)
  \/ MutateReturned

\* ------------------------------------------------------------------------
\* Request authentication of the REST route
\* ------------------------------------------------------------------------
\* Texts are sequences of bytes. A body is written with the bytes "{", "}",
\* ",", " " and "1" and with the two member texts "m" ("messages":[...] with
\* one message) and "t" ("tools":[...] with one tool), each taken as a whole.
Whitespace == {" "}
DigitChars == <<"0", "1", "2", "3", "4", "5", "6", "7", "8", "9">>
Digits == {DigitChars[i] : i \in 1..10}

RECURSIVE TrimStart(_)
TrimStart(text) ==
  IF text # << >> /\ Head(text) \in Whitespace THEN TrimStart(Tail(text)) ELSE text

RECURSIVE TrimEnd(_)
TrimEnd(text) ==
  IF text # << >> /\ text[Len(text)] \in Whitespace
  THEN TrimEnd(SubSeq(text, 1, Len(text) - 1)) ELSE text

\* String.prototype.trim
Trim(text) == TrimEnd(TrimStart(text))

RECURSIVE DigitPrefix(_)
\* the longest prefix of text made of digits
DigitPrefix(text) ==
  IF text # << >> /\ Head(text) \in Digits
  THEN <<Head(text)>> \o DigitPrefix(Tail(text)) ELSE << >>

RECURSIVE DecimalValue(_)
DecimalValue(digits) ==
  IF digits = << >> THEN 0
  ELSE 10 * DecimalValue(SubSeq(digits, 1, Len(digits) - 1))
       + (CHOOSE d \in 0..9 : DigitChars[d + 1] = digits[Len(digits)])

\* parseInt(text): the number written by the leading digits, NaN without any
parseInt(text) ==
  LET digits == DigitPrefix(TrimStart(text))
  IN [isNaN |-> digits = << >>, value |-> DecimalValue(digits)]

RECURSIVE ToDecimal(_)
\* Number.prototype.toString of a non-negative integer
ToDecimal(n) ==
  IF n < 10 THEN <<DigitChars[n + 1]>>
  ELSE ToDecimal(n \div 10) \o <<DigitChars[(n % 10) + 1]>>

RECURSIVE JsonMembers(_)
\* the members of an object text after its opening brace, or "invalid"
JsonMembers(text) ==
  LET t == TrimStart(text)
  IN IF t = << >> \/ Head(t) \notin {"m", "t"} THEN <<"invalid">>
     ELSE LET rest == TrimStart(Tail(t))
          IN IF rest = << >> THEN <<Head(t)>>
             ELSE IF Head(rest) # "," THEN <<"invalid">>
             ELSE LET more == JsonMembers(Tail(rest))
                  IN IF more = <<"invalid">> THEN more ELSE <<Head(t)>> \o more

\* JSON.parse(text): whether text is a JSON text and, if so, the value read
JsonParse(text) ==
  LET t == Trim(text)
      fails == [ok |-> FALSE, isObject |-> FALSE, members |-> {}]
  IN IF t = << >> THEN fails
     ELSE IF \A i \in 1..Len(t) : t[i] = "1"
     THEN [ok |-> TRUE, isObject |-> FALSE, members |-> {}]
     ELSE IF Len(t) >= 2 /\ t[1] = "{" /\ t[Len(t)] = "}"
     THEN LET inner == Trim(SubSeq(t, 2, Len(t) - 1))
              members == JsonMembers(inner)
          IN IF inner = << >> THEN [ok |-> TRUE, isObject |-> TRUE, members |-> {}]
             ELSE IF members = <<"invalid">> THEN fails
             ELSE [ok |-> TRUE, isObject |-> TRUE,
                   members |-> {members[i] : i \in 1..Len(members)}]
     ELSE fails

RECURSIVE JoinMembers(_, _)
\* the members written one after the other with "," between them, a key that
\* has been written already being left out
JoinMembers(members, written) ==
  IF members = << >> THEN << >>
  ELSE IF Head(members) \in written THEN JoinMembers(Tail(members), written)
  ELSE (IF written = {} THEN << >> ELSE <<",">>)
       \o <<Head(members)>>
       \o JoinMembers(Tail(members), written \cup {Head(members)})

\* JSON.stringify(JSON.parse(text)) of a JSON text: no whitespace, the
\* members in the order of the text
Reserialize(text) ==
  LET t == Trim(text)
  IN IF ~JsonParse(text).ok THEN text
     ELSE IF ~JsonParse(text).isObject THEN t
     ELSE LET inner == Trim(SubSeq(t, 2, Len(t) - 1))
          IN <<"{">>
             \o (IF inner = << >> THEN << >> ELSE JoinMembers(JsonMembers(inner), {}))
             \o <<"}">>

\* an absent header, and the signature header of a request
NoHeader == [present |-> FALSE, key |-> "", msg |-> << >>]
\* createHmac("sha256", secret).update(payload).digest("hex"): one digest per
\* secret and payload
HmacHex(secret, payload) == [present |-> TRUE, key |-> secret, msg |-> payload]

\* the check as it would be if the header were read as milliseconds
restAuth_millisecondHeader(bodyText, signature, timestampHeader, secret, t) ==
  LET timestamp == Trim(timestampHeader)
      requestTime == parseInt(timestamp)
      age == t - requestTime.value
  IN IF ~JsonParse(bodyText).ok THEN "400"
     ELSE IF ~signature.present \/ timestamp = << >> THEN "401"
     ELSE IF requestTime.isNaN \/ age < 0 \/ age > MAX_AGE_MS THEN "401"
     ELSE IF secret = "" THEN "500"
     ELSE IF signature # HmacHex(secret, bodyText \o timestamp) THEN "401"
     ELSE "pass"

\* the check as it would be if the signature were computed over the parsed
\* body written out again
restAuth_reserialized(bodyText, signature, timestampHeader, secret, t) ==
  LET timestamp == Trim(timestampHeader)
      requestTime == parseInt(timestamp)
      age == t - requestTime.value * 1000
  IN IF ~JsonParse(bodyText).ok THEN "400"
     ELSE IF ~signature.present \/ timestamp = << >> THEN "401"
     ELSE IF requestTime.isNaN \/ age < 0 \/ age > MAX_AGE_MS THEN "401"
     ELSE IF secret = "" THEN "500"
     ELSE IF signature # HmacHex(secret, Reserialize(bodyText) \o timestamp) THEN "401"
     ELSE "pass"

\* the check as it would be if a secret written in the code were used when
\* none is configured
restAuth_defaultSecret(bodyText, signature, timestampHeader, secret, t) ==
  LET timestamp == Trim(timestampHeader)
      requestTime == parseInt(timestamp)
      age == t - requestTime.value * 1000
      key == IF secret = "" THEN "k2" ELSE secret
  IN IF ~JsonParse(bodyText).ok THEN "400"
     ELSE IF ~signature.present \/ timestamp = << >> THEN "401"
     ELSE IF requestTime.isNaN \/ age < 0 \/ age > MAX_AGE_MS THEN "401"
     ELSE IF signature # HmacHex(key, bodyText \o timestamp) THEN "401"
     ELSE "pass"

\* lines 90-154 of POST: the status the request is refused with before any
\* rate-limit check, or "pass"
restAuth(bodyText, signature, timestampHeader, secret, t) ==
  LET timestamp == Trim(timestampHeader)
      requestTime == parseInt(timestamp)
      age == t - requestTime.value * 1000
  IN IF ~JsonParse(bodyText).ok THEN "400"
     ELSE IF ~signature.present \/ timestamp = << >> THEN "401"
     ELSE IF requestTime.isNaN \/ age < 0 \/ age > MAX_AGE_MS THEN "401"
     ELSE IF secret = "" THEN "500"
     ELSE IF signature # HmacHex(secret, bodyText \o timestamp) THEN "401"
     ELSE "pass"

\* ------------------------------------------------------------------------
\* Identities
\* ------------------------------------------------------------------------
\* a request without a device token: the header / message field is empty
NoToken == ""

\* ------------------------------------------------------------------------
\* The client IP.  A header is absent or has a text; the text of an IP header
\* is written with the bytes " " and "," and with addresses, each taken as a
\* whole.
\* ------------------------------------------------------------------------
RECURSIVE FirstEntry(_)
\* text.split(",")[0]
FirstEntry(text) ==
  IF text = << >> \/ Head(text) = "," THEN << >>
  ELSE <<Head(text)>> \o FirstEntry(Tail(text))

RECURSIVE Join(_)
\* the string a text is
Join(text) == IF text = << >> THEN "" ELSE Head(text) \o Join(Tail(text))

\* the standard route and the RPC interceptors:
\* cfIp || realIp || xffFirst || "0.0.0.0", an absent header giving undefined
\* where an empty one gives "", both of which || passes over
clientIp(headers) ==
  LET get(h) == IF h.present THEN h.text ELSE << >>
      cfIp == Trim(get(headers.cf))
      realIp == Trim(get(headers.realIp))
      xffFirst == Trim(FirstEntry(get(headers.xff)))
  IN Join(IF cfIp # << >> THEN cfIp
          ELSE IF realIp # << >> THEN realIp
          ELSE IF xffFirst # << >> THEN xffFirst
          ELSE <<"0.0.0.0">>)

\* the mini route: x-forwarded-for || x-real-ip || "unknown"
miniClientIp(headers) ==
  LET get(h) == IF h.present THEN h.text ELSE << >>
  IN Join(IF get(headers.xff) # << >> THEN get(headers.xff)
          ELSE IF get(headers.realIp) # << >> THEN get(headers.realIp)
          ELSE <<"unknown">>)

\* the IP headers of a request: cf-connecting-ip, x-real-ip, x-forwarded-for
IpHeaders(cfTexts, realIpTexts, xffTexts) ==
  LET values(texts) == {[present |-> FALSE, text |-> << >>]}
                       \cup {[present |-> TRUE, text |-> t] : t \in texts}
  IN [cf : values(cfTexts), realIp : values(realIpTexts), xff : values(xffTexts)]
DeviceTokens == {"t1"}
ClientIps == {"ip1", "ip2"}
Identifiers == DeviceTokens \cup ClientIps

Min(a, b) == IF a <= b THEN a ELSE b
Max(a, b) == IF a >= b THEN a ELSE b

\* ------------------------------------------------------------------------
\* Requests
\* ------------------------------------------------------------------------
\* the requests the server is handling at the same time
Reqs == {"r1", "r2"}
ServerSecret == "k1"
\* the keys a client may sign with: the shared secret and another one
ClientKeys == {"k1", "k2"}

\* a rate-limit result not yet obtained
NoRate == [called |-> FALSE, allowed |-> FALSE, limit |-> 0, resetAt |-> 0]
\* what a request keeps of a rate-limit result
RateOf(info) ==
  [called |-> TRUE, allowed |-> info.allowed, limit |-> info.limit,
   resetAt |-> info.resetAt]

\* what a 429 / ResourceExhausted built at time t says: X-RateLimit-Limit and
\* X-RateLimit-Reset of the violated result, and Retry-After in seconds
RateLimitResponse(violated, t) ==
  [limit |-> violated.limit, resetAt |-> violated.resetAt,
   \* Math.ceil((resetAt - t) / 1000)
   retryAfter |-> Max(0, -((-(violated.resetAt - t)) \div 1000))]

\* a request slot with no request in it
IdleSlot ==
  [pc |-> "idle", entry |-> "", deviceToken |-> NoToken, ip |-> "",
   body |-> << >>, timestamp |-> << >>, signature |-> NoHeader,
   signedTimestamp |-> << >>, mutated |-> FALSE,
   hasMessages |-> FALSE, tools |-> << >>,
   auth |-> "none", tokenRate |-> NoRate, ipRate |-> NoRate,
   limited |-> [limit |-> 0, resetAt |-> 0, retryAfter |-> 0],
   validation |-> "not_run", dispatched |-> FALSE, status |-> "",
   upstream |-> "", retryable |-> "", logs |-> << >>, stream |-> FALSE,
   headers |-> CHOOSE h \in IpHeaders({}, {}, {}) : TRUE]

\* ------------------------------------------------------------------------
\* Observation of the limiter: what the checks of one window have done
\* ------------------------------------------------------------------------
NoLog == [started |-> FALSE, firstResetAt |-> 0, allowed |-> 0, checks |-> 0]

\* the log of identifier after one more check at time t with result info
LogAfter(log, t, info) ==
  LET newWindow == ~log.started \/ t > log.firstResetAt
      base == IF newWindow
              THEN [started |-> TRUE, firstResetAt |-> t + WINDOW_MS,
                    allowed |-> 0, checks |-> 0]
              ELSE log
  IN [base EXCEPT !.allowed = IF info.allowed THEN @ + 1 ELSE @,
                  !.checks  = Min(@ + 1, info.limit + 1)]


\* one call of checkRateLimit at the current time, with its observation
DoCheck(identifier, hasDeviceToken) ==
  LET r == checkRateLimit(rateLimitStore, lastCleanupAt, identifier, hasDeviceToken, now)
  IN /\ rateLimitStore' = r.store
     /\ lastCleanupAt' = r.last
     /\ lastCheck' = [valid |-> TRUE, identifier |-> identifier,
                      hasDeviceToken |-> hasDeviceToken,
                      limit |-> LimitFor(hasDeviceToken), t |-> now,
                      existed |-> identifier \in DOMAIN rateLimitStore,
                      pre |-> StoreGet(rateLimitStore, identifier),
                      preLog |-> windowLog[identifier],
                      post |-> StoreGet(r.store, identifier),
                      info |-> r.info]
     /\ windowLog' = [windowLog EXCEPT
                        ![identifier] = LogAfter(@, now, r.info)]
     /\ UNCHANGED remoteVars

\* ------------------------------------------------------------------------
\* The clock
\* ------------------------------------------------------------------------
Tick1 ==
  /\ (now - StartNow) % WINDOW_MS < MaxSmallTicks
  /\ now' = now + 1
  /\ UNCHANGED <<rateLimitStore, lastCleanupAt, lastCheck, windowLog>>
  /\ UNCHANGED remoteVars
  /\ UNCHANGED schemaVars
  /\ UNCHANGED requestVars

TickWindow ==
  /\ (now - StartNow) \div WINDOW_MS < MaxWindows
  /\ now' = now + WINDOW_MS
  /\ UNCHANGED <<rateLimitStore, lastCleanupAt, lastCheck, windowLog>>
  /\ UNCHANGED remoteVars
  /\ UNCHANGED schemaVars
  /\ UNCHANGED requestVars

\* ------------------------------------------------------------------------
\* Specification of the limiter alone: a sequence of checkRateLimit calls
\* ------------------------------------------------------------------------

\* the state after module load: the secret and whether a remote store is
\* configured come from the environment
InitMode(secret, client, env) ==
  /\ now = StartNow
  /\ environment = env
  /\ rateLimitStore = << >>
  /\ lastCleanupAt = 0
  /\ lastCheck =
       [valid |-> FALSE, identifier |-> "", hasDeviceToken |-> FALSE,
        limit |-> 0, t |-> 0,
        existed |-> FALSE, pre |-> NoEntry, preLog |-> NoLog,
        post |-> NoEntry,
        info |-> [allowed |-> FALSE, limit |-> 0, remaining |-> 0, resetAt |-> 0]]
  /\ windowLog = [i \in Identifiers |-> NoLog]
  /\ lastSchema =
       [called |-> FALSE, tool |-> Tool(<< >>, "", FALSE, NoParameters, FALSE),
        errors |-> << >>, converted |-> Returned(<< >>),
        sent |-> handlerProtoToOpenAITool(Tool(<< >>, "", FALSE, NoParameters, FALSE))]
  /\ validationCache = << >>
  /\ lastValidation =
       [called |-> FALSE, calls |-> 0, tools |-> << >>, errors |-> << >>,
        hit |-> FALSE, aliased |-> FALSE, mutated |-> FALSE]
  /\ hmacSecret = secret
  /\ slots = [r \in Reqs |-> IdleSlot]
  /\ redisClient = client
  /\ redisStore = << >>
  /\ lastRemote =
       [valid |-> FALSE, identifier |-> "", limit |-> 0, t |-> 0, outcome |-> "",
        threw |-> FALSE,
        info |-> [allowed |-> FALSE, limit |-> 0, remaining |-> 0, resetAt |-> 0]]

\* a deployment without UPSTASH_REDIS_REST_URL / UPSTASH_REDIS_REST_TOKEN
InitWith(secret) ==
  InitMode(secret, FALSE, [NODE_ENV |-> "production", LOG_HASH_KEY |-> "k"])

\* the state after module load of a deployment with its secret configured
Init == InitWith(ServerSecret)

Check(identifier, hasDeviceToken) ==
  /\ DoCheck(identifier, hasDeviceToken)
  /\ UNCHANGED now
  /\ UNCHANGED schemaVars
  /\ UNCHANGED requestVars

CheckIp == \E identifier \in ClientIps : Check(identifier, FALSE)

NextLimiter ==
  \/ \E identifier \in DeviceTokens : Check(identifier, TRUE)
  \/ CheckIp \/ Tick1 \/ TickWindow

SpecLimiter == Init /\ [][NextLimiter]_vars

\* ------------------------------------------------------------------------
\* Specification of the limiter called with the identities of requests: the
\* device token is whatever text the client sends
\* ------------------------------------------------------------------------
\* the texts sent as device token: a token, and the text of a client IP
HeaderTokens == DeviceTokens \cup {"ip1"}


NextIdentity ==
  \/ \E identifier \in HeaderTokens : Check(identifier, TRUE)
  \/ CheckIp \/ Tick1 \/ TickWindow

SpecIdentity == Init /\ [][NextIdentity]_vars

\* ------------------------------------------------------------------------
\* Specification of the limiter with a remote store configured: a sequence
\* of checkRateLimit calls, the calls to the store succeeding or failing
\* ------------------------------------------------------------------------
InitRemote ==
  InitMode(ServerSecret, TRUE, [NODE_ENV |-> "production", LOG_HASH_KEY |-> "k"])

\* one call of checkRateLimit with a client, with its observation
RemoteCheck(identifier, hasDeviceToken) ==
  /\ redisClient
  /\ RedisGet(redisStore, RedisKey(identifier, now), now).count < MaxRemoteCount
  \* pipeline.exec() ends with the replies, with an error before the commands
  \* reached the store, or with an error after they ran
  /\ \E outcome \in {"ok", "not_sent", "reply_lost"} :
       LET limit == LimitFor(hasDeviceToken)
           r == checkRateLimitRedis(redisStore, rateLimitStore, lastCleanupAt,
                                    identifier, limit, now, outcome)
       IN /\ redisStore' = r.redis
          /\ rateLimitStore' = r.store
          /\ lastCleanupAt' = r.last
          /\ lastRemote' = [valid |-> TRUE, identifier |-> identifier,
                            limit |-> limit, t |-> now, outcome |-> outcome,
                            threw |-> r.threw, info |-> r.info]
  /\ UNCHANGED <<now, redisClient, lastCheck, windowLog, environment>>
  /\ UNCHANGED schemaVars
  /\ UNCHANGED requestVars


NextRemote ==
  \/ \E identifier \in DeviceTokens : RemoteCheck(identifier, TRUE)
  \/ Tick1 \/ TickWindow

SpecRemote == InitRemote /\ [][NextRemote]_vars

\* ------------------------------------------------------------------------
\* Specification of the two limiters side by side: every check is made of
\* the in-process limiter and, with the same identifier, limit and time, of
\* the remote limiter, whose store answers every call
\* ------------------------------------------------------------------------
BothCheck(identifier, hasDeviceToken) ==
  LET limit == LimitFor(hasDeviceToken)
      memory == checkRateLimitMemory(rateLimitStore, lastCleanupAt, identifier, limit, now)
      remote == checkRateLimitRedis(redisStore, rateLimitStore, lastCleanupAt,
                                    identifier, limit, now, "ok")
  IN /\ redisClient
     /\ RedisGet(redisStore, RedisKey(identifier, now), now).count < MaxRemoteCount
     /\ rateLimitStore' = memory.store
     /\ lastCleanupAt' = memory.last
     /\ redisStore' = remote.redis
     /\ lastCheck' = [valid |-> TRUE, identifier |-> identifier,
                      hasDeviceToken |-> hasDeviceToken, limit |-> limit, t |-> now,
                      existed |-> identifier \in DOMAIN rateLimitStore,
                      pre |-> StoreGet(rateLimitStore, identifier),
                      preLog |-> windowLog[identifier],
                      post |-> StoreGet(memory.store, identifier),
                      info |-> memory.info]
     /\ lastRemote' = [valid |-> TRUE, identifier |-> identifier,
                       limit |-> limit, t |-> now, outcome |-> "ok",
                       threw |-> remote.threw, info |-> remote.info]
     /\ windowLog' = [windowLog EXCEPT ![identifier] = LogAfter(@, now, memory.info)]
     /\ UNCHANGED <<now, redisClient, environment>>
     /\ UNCHANGED schemaVars
     /\ UNCHANGED requestVars

\* the checks of one identity
NextBoth ==
  \/ \E identifier \in DeviceTokens : BothCheck(identifier, TRUE)
  \/ Tick1 \/ TickWindow

SpecBoth == InitRemote /\ [][NextBoth]_vars

\* Init is the state after module load for the validator as well
SpecSchema == Init /\ [][NextSchema]_vars

\* the validator with its cache, called repeatedly
SpecValidator == Init /\ [][NextValidator]_vars

\* ------------------------------------------------------------------------
\* The REST route: POST /api/ai/chat/standard
\* ------------------------------------------------------------------------
SetSlot(r, slot) == slots' = [slots EXCEPT ![r] = slot]
\* the response of a request: its status and what the stages have found; the
\* request itself is gone
Finish(slot, status) ==
  [IdleSlot EXCEPT !.pc = "done", !.entry = slot.entry, !.status = status,
                   !.auth = slot.auth, !.tokenRate = slot.tokenRate,
                   !.ipRate = slot.ipRate, !.limited = slot.limited,
                   !.validation = slot.validation,
                   !.dispatched = slot.dispatched, !.logs = slot.logs]

\* ------------------------------------------------------------------------
\* Records sent to the log sink.  A record is kept by the call that writes
\* it, whether it carries the request id, and its identifier member: the
\* prefix, the attribute of the request written after it, and whether the
\* attribute went through anonymize (the first 12 hex digits of its HMAC
\* under LOG_HASH_KEY) or is written as it is.
\* ------------------------------------------------------------------------
NoIdentifier == [form |-> "none", anonymized |-> FALSE, of |-> ""]

\* anonymize(value) throws in production when LOG_HASH_KEY is not set
anonymizeThrows(env) == env.LOG_HASH_KEY = "" /\ env.NODE_ENV = "production"

\* deviceToken ? `token#${anonymize(deviceToken)}` : `ip#${anonymize(ip)}`
AnonymizedIdentifier(slot) ==
  IF slot.deviceToken # NoToken
  THEN [form |-> "token#", anonymized |-> TRUE, of |-> "deviceToken"]
  ELSE [form |-> "ip#", anonymized |-> TRUE, of |-> "ip"]

\* deviceToken ? `token:${deviceToken.slice(0, 8)}...` : `ip:${ip}`
PlainIdentifier(slot) ==
  IF slot.deviceToken # NoToken
  THEN [form |-> "token:", anonymized |-> FALSE, of |-> "deviceToken.slice(0, 8)"]
  ELSE [form |-> "ip:", anonymized |-> FALSE, of |-> "ip"]

LogRecord(call, requestId, identifier) ==
  [call |-> call, requestId |-> requestId, identifier |-> identifier]

Logged(slot, record) == [slot EXCEPT !.logs = Append(@, record)]

\* what lines 90-154 of POST log for the request they refuse: nothing for a
\* body that is not JSON, for missing headers and for a timestamp out of the
\* window
restAuthLogs(slot, secret, t) ==
  LET timestamp == Trim(slot.timestamp)
      requestTime == parseInt(timestamp)
      age == t - requestTime.value * 1000
  IN IF ~JsonParse(slot.body).ok THEN << >>
     ELSE IF ~slot.signature.present \/ timestamp = << >> THEN << >>
     ELSE IF requestTime.isNaN \/ age < 0 \/ age > MAX_AGE_MS THEN << >>
     ELSE IF secret = ""
     THEN <<LogRecord("console.error [Auth] HMAC_SECRET not configured", FALSE,
                      NoIdentifier)>>
     ELSE IF slot.signature # HmacHex(secret, slot.body \o timestamp)
     THEN <<LogRecord("console.warn [Auth] Invalid signature", TRUE,
                      AnonymizedIdentifier(slot))>>
     ELSE << >>

\* one checkRateLimit call made for a request
RequestCheck(identifier, hasDeviceToken) ==
  LET r == checkRateLimit(rateLimitStore, lastCleanupAt, identifier, hasDeviceToken, now)
  IN /\ rateLimitStore' = r.store
     /\ lastCleanupAt' = r.last
     /\ windowLog' = [windowLog EXCEPT ![identifier] = LogAfter(@, now, r.info)]
     /\ UNCHANGED lastCheck
     /\ UNCHANGED remoteVars
LimiterUnchanged ==
  UNCHANGED <<rateLimitStore, lastCleanupAt, lastCheck, windowLog,
              redisClient, redisStore, lastRemote, environment>>

\* the tool of the member text "t": a tool whose schema has errors
RestTools == <<BrokenTool>>

\* the violation as it would be if a request were refused only when both
\* buckets are exhausted
Violated_bothDenied(slot) ==
  IF slot.tokenRate.called /\ ~slot.tokenRate.allowed /\ ~slot.ipRate.allowed
  THEN slot.tokenRate
  ELSE IF ~slot.tokenRate.called /\ ~slot.ipRate.allowed THEN slot.ipRate
  ELSE NoRate

\* the violation as it would be if the IP bucket were looked at first
Violated_ipFirst(slot) ==
  IF ~slot.ipRate.allowed THEN slot.ipRate
  ELSE IF slot.tokenRate.called /\ ~slot.tokenRate.allowed THEN slot.tokenRate
  ELSE NoRate

\* the first rate-limit result that is a violation: the token's, else the IP's
Violated(slot) ==
  IF slot.tokenRate.called /\ ~slot.tokenRate.allowed THEN slot.tokenRate
  ELSE IF ~slot.ipRate.allowed THEN slot.ipRate
  ELSE NoRate

\* the route as it would be if the first bucket were checked ahead of
\* authentication
RestStartOn_checkFirst(r, slot) ==
  LET refused == restAuth(slot.body, slot.signature, slot.timestamp, hmacSecret, now)
      parsed == JsonParse(slot.body)
      hasToken == slot.deviceToken # NoToken
      identifier == IF hasToken THEN slot.deviceToken ELSE slot.ip
      info == checkRateLimit(rateLimitStore, lastCleanupAt, identifier, hasToken, now).info
      read == [slot EXCEPT !.auth = "valid",
                           !.hasMessages = "m" \in parsed.members,
                           !.tools = IF "t" \in parsed.members THEN RestTools ELSE << >>]
  IN /\ RequestCheck(identifier, hasToken)
     /\ IF refused # "pass"
        THEN SetSlot(r, Finish([slot EXCEPT !.auth = IF refused = "400" THEN "none"
                                                   ELSE "rejected",
                                           !.logs = restAuthLogs(slot, hmacSecret, now)],
                                    refused))
        ELSE SetSlot(r, IF hasToken
                        THEN [read EXCEPT !.tokenRate = RateOf(info), !.pc = "token_checked"]
                        ELSE [read EXCEPT !.ipRate = RateOf(info), !.pc = "ip_checked"])
     /\ UNCHANGED <<now, hmacSecret>>
     /\ UNCHANGED schemaVars

\* POST up to its first await on checkRateLimit: the body is read and parsed,
\* the request authenticated, and the first bucket checked
RestStartOn(r, slot) ==
  LET refused == restAuth(slot.body, slot.signature, slot.timestamp, hmacSecret, now)
      parsed == JsonParse(slot.body)
      hasToken == slot.deviceToken # NoToken
      identifier == IF hasToken THEN slot.deviceToken ELSE slot.ip
      info == checkRateLimit(rateLimitStore, lastCleanupAt, identifier, hasToken, now).info
      read == [slot EXCEPT !.auth = "valid",
                           !.hasMessages = "m" \in parsed.members,
                           !.tools = IF "t" \in parsed.members THEN RestTools ELSE << >>]
  IN /\ IF refused # "pass"
        THEN /\ SetSlot(r, Finish([slot EXCEPT !.auth = IF refused = "400" THEN "none"
                                                        ELSE "rejected",
                                                !.logs = restAuthLogs(slot, hmacSecret, now)],
                                         refused))
             /\ LimiterUnchanged
        ELSE /\ RequestCheck(identifier, hasToken)
             /\ SetSlot(r, IF hasToken
                           THEN [read EXCEPT !.tokenRate = RateOf(info), !.pc = "token_checked"]
                           ELSE [read EXCEPT !.ipRate = RateOf(info), !.pc = "ip_checked"])
     /\ UNCHANGED <<now, hmacSecret>>
     /\ UNCHANGED schemaVars

\* the route takes up a request that has been sent
RestStart(r) ==
  /\ slots[r].pc = "sent" /\ slots[r].entry = "rest"
  /\ RestStartOn(r, slots[r])

\* POST after the token check: the IP bucket is checked whatever the token's result
RestIpCheck(r) ==
  LET slot == slots[r]
      info == checkRateLimit(rateLimitStore, lastCleanupAt, slot.ip, FALSE, now).info
  IN /\ slot.pc = "token_checked" /\ slot.entry = "rest"
     /\ RequestCheck(slot.ip, FALSE)
     /\ SetSlot(r, [slot EXCEPT !.ipRate = RateOf(info), !.pc = "ip_checked"])
     /\ UNCHANGED <<now, hmacSecret>>
     /\ UNCHANGED schemaVars

\* POST after the IP check: 429 on a violation, 400 without messages, else the
\* body is handed to createChatCompletion as it is
RestDispatch(r) ==
  LET slot == slots[r]
  IN /\ slot.pc = "ip_checked" /\ slot.entry = "rest"
     /\ SetSlot(r, IF Violated(slot).called
                   THEN Finish(Logged([slot EXCEPT
                                  !.limited = RateLimitResponse(Violated(slot), now)],
                                  LogRecord("console.warn [Rate Limit] Exceeded", FALSE,
                                            AnonymizedIdentifier(slot))),
                               "429")
                   ELSE IF ~slot.hasMessages THEN Finish(slot, "400")
                   ELSE [slot EXCEPT !.dispatched = TRUE, !.pc = "upstream"])
     /\ LimiterUnchanged
     /\ UNCHANGED <<now, hmacSecret>>
     /\ UNCHANGED schemaVars

\* what the upstream call may end with: a completion or an error status
UpstreamOutcomes == {"ok", "429", "400", "401", "500", "502"}

\* error.status of an upstream error
StatusOf(outcome) ==
  CASE outcome = "400" -> 400
    [] outcome = "401" -> 401
    [] outcome = "429" -> 429
    [] outcome = "500" -> 500
    [] outcome = "502" -> 502

\* the response to a request whose upstream call ended with outcome
Answer(slot, outcome, status, retryable) ==
  [Finish(slot, status) EXCEPT !.upstream = outcome, !.retryable = retryable]

\* what POST logs after createChatCompletion: the request with its cost, or
\* the error; nothing for a completion that has not the shape of one
restUpstreamLog(slot, outcome) ==
  IF outcome = "ok"
  THEN Logged(slot, LogRecord("console.log [API Request]", TRUE,
                              AnonymizedIdentifier(slot)))
  ELSE IF outcome = "malformed" THEN slot
  ELSE Logged(slot, LogRecord("console.error [API Error]", TRUE, NoIdentifier))

\* what loggingInterceptor logs when next returns or throws
rpcHandlerLog(slot, failed) ==
  Logged(slot, LogRecord(IF failed THEN "logger.error API Request failed"
                         ELSE "logger.info API Request completed",
                         TRUE, AnonymizedIdentifier(slot)))

\* what rateLimitInterceptor logs for a violation
rpcRateLimitLog(slot) ==
  Logged(slot, LogRecord("logger.warn Rate limit exceeded", FALSE,
                         AnonymizedIdentifier(slot)))

\* POST after createChatCompletion: the completion (502 when it has not the
\* shape of one), or the error's status with 429 turned into 503
RestRespond(r) ==
  LET slot == slots[r]
  IN /\ slot.pc = "upstream" /\ slot.entry = "rest"
     /\ \E outcome \in UpstreamOutcomes \cup {"malformed"} :
          SetSlot(r, IF outcome = "ok"
                     THEN Answer(restUpstreamLog(slot, outcome), outcome, "200", "")
                     ELSE IF outcome = "malformed"
                     THEN Answer(restUpstreamLog(slot, outcome), outcome, "502", "")
                     ELSE LET errorStatus == StatusOf(outcome)
                              isClientError == errorStatus >= 400 /\ errorStatus < 500
                                               /\ errorStatus # 429
                          IN Answer(restUpstreamLog(slot, outcome), outcome,
                                    IF errorStatus = 429 THEN "503" ELSE outcome,
                                    IF isClientError THEN "false" ELSE "true"))
     /\ LimiterUnchanged
     /\ UNCHANGED <<now, hmacSecret>>
     /\ UNCHANGED schemaVars

RestSteps == \E r \in Reqs : RestIpCheck(r) \/ RestDispatch(r) \/ RestRespond(r)

\* ------------------------------------------------------------------------
\* Specification of request authentication: one signed request, possibly
\* changed on its way, handled by the REST route
\* ------------------------------------------------------------------------
BodyBytes == {"{", "}", " ", "1", ","}

\* bodies that are JSON texts and bodies that are not
AuthBodies ==
  UNION {[1..k -> {"{", "}", " ", "1"}] : k \in 0..2}
  \cup {<<"{", "m", "}">>, <<"{", "m", ",", "t", "}">>, <<"{", "m", " ", "}">>}
\* Unix seconds around StartNow (1000 s): inside the window, stale and ahead of
\* the clock; the empty text is a header that is not sent
AuthTimestamps ==
  {<< >>, <<"1", "0", "0", "0">>}
  \cup UNION {[1..k -> {"0", "9"}] : k \in 3..4}

\* the client builds a request and signs body and timestamp with its key, or
\* signs the body as JSON.stringify would write it, or sends no signature
ClientSign ==
  /\ slots["r1"].pc = "idle"
  /\ \E body \in AuthBodies, timestamp \in AuthTimestamps :
     \E signature \in {HmacHex(k, body \o timestamp) : k \in ClientKeys}
                      \cup {HmacHex(ServerSecret, Reserialize(body) \o timestamp)}
                      \cup {NoHeader} :
       SetSlot("r1", [IdleSlot EXCEPT !.pc = "sent", !.entry = "rest",
                                   !.deviceToken = "t1", !.ip = "ip1",
                                   !.body = body, !.timestamp = timestamp,
                                   !.signedTimestamp = timestamp,
                                   !.signature = signature])
  /\ LimiterUnchanged
  /\ UNCHANGED <<now, hmacSecret>>
  /\ UNCHANGED schemaVars

\* one byte of the body, or of the timestamp, is changed on the way; the
\* signature is kept
ClientTamper ==
  LET slot == slots["r1"]
  IN /\ slot.pc = "sent" /\ ~slot.mutated
     /\ \/ \E i \in 1..Len(slot.body), b \in BodyBytes :
             /\ slot.body[i] \in BodyBytes /\ b # slot.body[i]
             /\ SetSlot("r1", [slot EXCEPT !.body[i] = b, !.mutated = TRUE])
        \/ \E i \in 1..Len(slot.timestamp), b \in {"0", "1", "9", "x"} :
             /\ b # slot.timestamp[i]
             /\ SetSlot("r1", [slot EXCEPT !.timestamp[i] = b, !.mutated = TRUE])
     /\ LimiterUnchanged
     /\ UNCHANGED <<now, hmacSecret>>
     /\ UNCHANGED schemaVars

RestHandler ==
  \/ \E r \in Reqs : RestStart(r)
  \/ RestSteps

\* the response has been sent; the client may send its next request
AuthRecycle ==
  /\ slots["r1"].pc = "done"
  /\ SetSlot("r1", IdleSlot)
  /\ LimiterUnchanged
  /\ UNCHANGED <<now, hmacSecret>>
  /\ UNCHANGED schemaVars

NextAuth == ClientSign \/ ClientTamper \/ RestHandler \/ AuthRecycle

\* deployments with and without HMAC_SECRET
InitAuth == \E secret \in {"", ServerSecret} : InitWith(secret)

SpecAuth == InitAuth /\ [][NextAuth]_vars

\* ------------------------------------------------------------------------
\* The RPC entry point: interceptors auth, rate limit, logging, then the handler
\* ------------------------------------------------------------------------
\* the auth interceptor: the request passes when both headers are present, the
\* timestamp (milliseconds) is within 5 minutes of the clock on either side, a
\* secret is configured and the signature is the HMAC of the serialized
\* message followed by the timestamp
rpcAuth(bodyBytes, signature, timestampHeader, secret, t) ==
  LET requestTime == parseInt(timestampHeader)
      age == t - requestTime.value
  IN /\ signature.present /\ timestampHeader # << >>
     /\ ~requestTime.isNaN
     /\ age <= MAX_AGE_MS /\ age >= -MAX_AGE_MS
     /\ secret # ""
     /\ signature = HmacHex(secret, bodyBytes \o timestampHeader)

RpcAuthOn(r, slot) ==
     /\ SetSlot(r, IF rpcAuth(slot.body, slot.signature, slot.timestamp, hmacSecret, now)
                   THEN [slot EXCEPT !.auth = "valid", !.pc = "authenticated"]
                   ELSE Finish(Logged([slot EXCEPT !.auth = "rejected"],
                                      LogRecord("authInterceptor", TRUE,
                                                AnonymizedIdentifier(slot))),
                               "unauthenticated"))
     /\ LimiterUnchanged
     /\ UNCHANGED <<now, hmacSecret>>
     /\ UNCHANGED schemaVars

\* the interceptor chain takes up a request that has been sent
RpcAuth(r) ==
  /\ slots[r].pc = "sent" /\ slots[r].entry = "rpc"
  /\ RpcAuthOn(r, slots[r])

\* req.message['deviceToken'] as an interceptor reads it: the field of the
\* message of a unary request; the message of a streaming request is the
\* AsyncIterable of its messages, which has no such member
MessageToken(slot) == IF slot.stream THEN NoToken ELSE slot.deviceToken

\* rateLimitInterceptor up to its first await: the token bucket when the
\* message carries a device token, else the IP bucket
RpcFirstCheck(r) ==
  LET slot == slots[r]
      hasToken == MessageToken(slot) # NoToken
      identifier == IF hasToken THEN MessageToken(slot) ELSE slot.ip
      info == checkRateLimit(rateLimitStore, lastCleanupAt, identifier, hasToken, now).info
  IN /\ slot.pc = "authenticated" /\ slot.entry = "rpc"
     /\ RequestCheck(identifier, hasToken)
     /\ SetSlot(r, IF hasToken
                   THEN [slot EXCEPT !.tokenRate = RateOf(info), !.pc = "token_checked"]
                   ELSE [slot EXCEPT !.ipRate = RateOf(info), !.pc = "ip_checked"])
     /\ UNCHANGED <<now, hmacSecret>>
     /\ UNCHANGED schemaVars

\* rateLimitInterceptor after the token check: the IP bucket
RpcIpCheck(r) ==
  LET slot == slots[r]
      info == checkRateLimit(rateLimitStore, lastCleanupAt, slot.ip, FALSE, now).info
  IN /\ slot.pc = "token_checked" /\ slot.entry = "rpc"
     /\ RequestCheck(slot.ip, FALSE)
     /\ SetSlot(r, [slot EXCEPT !.ipRate = RateOf(info), !.pc = "ip_checked"])
     /\ UNCHANGED <<now, hmacSecret>>
     /\ UNCHANGED schemaVars

\* the tool lists of RPC messages
RpcToolLists == {<< >>, <<PlainTool>>, <<StrictTool>>}

\* the handler as it would be if the tools of the message were validated
\* before the rate-limit results are looked at
RpcHandler_validateFirst(r) ==
  LET slot == slots[r]
  IN /\ slot.pc = "ip_checked" /\ slot.entry = "rpc"
     /\ \E hasMessages \in BOOLEAN, tools \in RpcToolLists :
          LET message == [slot EXCEPT !.hasMessages = hasMessages, !.tools = tools]
              checked == validateTools(validationCache, tools)
              seen == [message EXCEPT !.validation = IF checked.errors # << >>
                                                     THEN "errors" ELSE "passed"]
          IN /\ validationCache' = checked.cache
             /\ SetSlot(r, IF Violated(slot).called
                           THEN Finish(rpcRateLimitLog(seen), "resource_exhausted")
                           ELSE IF ~hasMessages \/ checked.errors # << >>
                           THEN Finish(rpcHandlerLog(seen, TRUE), "invalid_argument")
                           ELSE [seen EXCEPT !.dispatched = TRUE, !.pc = "upstream"])
     /\ UNCHANGED <<lastSchema, lastValidation>>
     /\ LimiterUnchanged
     /\ UNCHANGED <<now, hmacSecret>>

\* rateLimitInterceptor after the IP check and, when it calls next, the
\* logging interceptor and the handler up to createChatCompletion:
\* ResourceExhausted on a violation; validateAndConvertRequest refuses a
\* message list that is empty and tools that validateTools reports errors
\* for.  Both interceptors call anonymize outside any try block, the rate
\* limiter for the record of a violation and the logging interceptor for its
\* identifier before it calls next: where anonymize throws, its Error leaves
\* the interceptor and the request ends with the code of an error that is
\* not a ConnectError.
RpcHandler(r) ==
  LET slot == slots[r]
  IN /\ slot.pc = "ip_checked" /\ slot.entry = "rpc"
     /\ IF anonymizeThrows(environment)
        THEN /\ SetSlot(r, Finish(slot, "internal"))
             /\ UNCHANGED validationCache
        ELSE IF Violated(slot).called
        THEN /\ SetSlot(r, Finish(rpcRateLimitLog([slot EXCEPT
                                      !.limited = RateLimitResponse(Violated(slot), now)]),
                                   "resource_exhausted"))
             /\ UNCHANGED validationCache
        ELSE \E hasMessages \in BOOLEAN, tools \in RpcToolLists :
               LET message == [slot EXCEPT !.hasMessages = hasMessages, !.tools = tools]
                   checked == validateTools(validationCache, tools)
               IN IF ~hasMessages
                  THEN /\ SetSlot(r, Finish(rpcHandlerLog(message, TRUE),
                                            "invalid_argument"))
                       /\ UNCHANGED validationCache
                  ELSE IF tools = << >>
                  THEN /\ SetSlot(r, [message EXCEPT !.dispatched = TRUE,
                                                     !.pc = "upstream"])
                       /\ UNCHANGED validationCache
                  ELSE /\ validationCache' = checked.cache
                       /\ SetSlot(r, IF checked.errors # << >>
                                     THEN Finish(rpcHandlerLog(
                                                   [message EXCEPT !.validation = "errors"],
                                                   TRUE),
                                                 "invalid_argument")
                                     ELSE [message EXCEPT !.validation = "passed",
                                                         !.dispatched = TRUE,
                                                         !.pc = "upstream"])
     /\ UNCHANGED <<lastSchema, lastValidation>>
     /\ LimiterUnchanged
     /\ UNCHANGED <<now, hmacSecret>>

\* handleChatCompletionRequest after createChatCompletion: the response, or
\* the error turned into a ConnectError by its status
RpcRespond(r) ==
  LET slot == slots[r]
  IN /\ slot.pc = "upstream" /\ slot.entry = "rpc"
     /\ \E outcome \in UpstreamOutcomes :
          SetSlot(r, Answer(rpcHandlerLog(slot, outcome # "ok"), outcome,
                            IF outcome = "ok" THEN "ok"
                            ELSE IF StatusOf(outcome) = 429 THEN "resource_exhausted"
                            ELSE IF StatusOf(outcome) >= 500 THEN "internal"
                            ELSE "invalid_argument", ""))
     /\ LimiterUnchanged
     /\ UNCHANGED <<now, hmacSecret>>
     /\ UNCHANGED schemaVars

\* ------------------------------------------------------------------------
\* Specification of the service: requests on both entry points, handled
\* concurrently
\* ------------------------------------------------------------------------
\* the clock in seconds and in milliseconds, as a client writes it
NowSeconds == <<"1", "0", "0", "0">>
NowMillis == <<"1", "0", "0", "0", "0", "0", "0">>
\* toBinary() of an RPC message
RpcBytes == <<"b">>

\* a request arrives when a slot is free, the first free one taking it; the
\* route starts on it
FirstFree(r) ==
  /\ slots[r].pc = "idle"
  /\ r = "r2" => slots["r1"].pc # "idle"

RestRequest(r) ==
  /\ FirstFree(r)
  /\ \E token \in DeviceTokens \cup {NoToken}, ip \in ClientIps,
        body \in {<<"{", "}">>, <<"{", "m", "}">>, <<"{", "m", ",", "t", "}">>}, key \in ClientKeys :
       RestStartOn(r, [IdleSlot EXCEPT !.pc = "sent", !.entry = "rest",
                                       !.deviceToken = token, !.ip = ip,
                                       !.body = body, !.timestamp = NowSeconds,
                                       !.signedTimestamp = NowSeconds,
                                       !.signature = HmacHex(key, body \o NowSeconds)])

RpcRequest(r) ==
  /\ FirstFree(r)
  /\ \E token \in DeviceTokens \cup {NoToken}, ip \in ClientIps, key \in ClientKeys :
       RpcAuthOn(r, [IdleSlot EXCEPT !.pc = "sent", !.entry = "rpc",
                                     !.deviceToken = token, !.ip = ip,
                                     !.body = RpcBytes, !.timestamp = NowMillis,
                                     !.signedTimestamp = NowMillis,
                                     !.signature = HmacHex(key, RpcBytes \o NowMillis)])

\* the response has been sent; the slot is free again
Recycle(r) ==
  /\ slots[r].pc = "done"
  /\ SetSlot(r, IdleSlot)
  /\ LimiterUnchanged
  /\ UNCHANGED <<now, hmacSecret>>
  /\ UNCHANGED schemaVars

Arrivals == \E r \in Reqs : RestRequest(r) \/ RpcRequest(r) \/ Recycle(r)

RpcSteps ==
  \E r \in Reqs : RpcFirstCheck(r) \/ RpcIpCheck(r) \/ RpcHandler(r) \/ RpcRespond(r)

Next == Arrivals \/ RestSteps \/ RpcSteps

Spec == Init /\ [][Next]_vars

\* ------------------------------------------------------------------------
\* Specification of the RPC entry point with its streaming method: one
\* request at a time, unary (standardCompletion) or server-streaming
\* (streamStandardCompletion), through the same interceptors
\* ------------------------------------------------------------------------
ConnectRequest(r) ==
  /\ slots[r].pc = "idle"
  /\ \E token \in DeviceTokens \cup {NoToken}, key \in ClientKeys,
        stream \in BOOLEAN,
        headers \in IpHeaders({<<" ">>, <<"ip1", " ">>}, {<<"ip2">>},
                              {<<"ip1", ",", " ", "ip2">>, <<",", " ", "ip2">>,
                               <<" ", "ip2", " ", ",", "ip1">>}) :
       RpcAuthOn(r, [IdleSlot EXCEPT !.pc = "sent", !.entry = "rpc",
                                     !.deviceToken = token, !.headers = headers,
                                     !.ip = clientIp(headers),
                                     !.stream = stream,
                                     !.body = RpcBytes, !.timestamp = NowMillis,
                                     !.signedTimestamp = NowMillis,
                                     !.signature = HmacHex(key, RpcBytes \o NowMillis)])

NextStream ==
  \/ ConnectRequest("r1") \/ RpcFirstCheck("r1") \/ RpcIpCheck("r1")
  \/ RpcHandler("r1") \/ RpcRespond("r1") \/ Recycle("r1")

SpecStream == Init /\ [][NextStream]_vars

\* the RPC entry point in every configuration of NODE_ENV and LOG_HASH_KEY
InitLogging ==
  \E env \in [NODE_ENV : {"production", "development"}, LOG_HASH_KEY : {"", "k"}] :
    InitMode(ServerSecret, FALSE, env)

SpecLogging == InitLogging /\ [][NextStream]_vars

\* ------------------------------------------------------------------------
\* Specification of the REST route under a moving clock: one client, whose
\* clock may differ from the server's, sends correctly signed requests; time
\* passes between the steps of the route
\* ------------------------------------------------------------------------
\* JSON.stringify of a body with one message
MessageBody == <<"{", "m", "}">>

TickSecond ==
  /\ ((now - StartNow) % WINDOW_MS) \div 1000 < MaxSecondTicks
  /\ now' = now + 1000
  /\ LimiterUnchanged
  /\ UNCHANGED schemaVars
  /\ UNCHANGED requestVars

\* the client writes the timestamp its clock shows and signs the body followed
\* by it with the shared secret
TimedSign ==
  /\ slots["r1"].pc = "idle"
  /\ \E token \in DeviceTokens \cup {NoToken}, skew \in {-1, 0, 299, 301} :
       \* Math.floor(t / 1000).toString() on the client's clock
       LET timestamp == ToDecimal((now - skew * 1000) \div 1000)
       IN SetSlot("r1", [IdleSlot EXCEPT !.pc = "sent", !.entry = "rest",
                                      !.deviceToken = token, !.ip = "ip1",
                                      !.body = MessageBody,
                                      !.timestamp = timestamp,
                                      !.signedTimestamp = timestamp,
                                      !.signature = HmacHex(ServerSecret,
                                                            MessageBody \o timestamp)])
  /\ LimiterUnchanged
  /\ UNCHANGED <<now, hmacSecret>>
  /\ UNCHANGED schemaVars

NextTimed == TimedSign \/ RestHandler \/ AuthRecycle \/ TickSecond \/ TickWindow

SpecTimed == Init /\ [][NextTimed]_vars

\* ------------------------------------------------------------------------
\* The route /api/ai/chat/mini: no authentication, one bucket (the device
\* token's, else the IP's).  The route reads the result of checkRateLimit
\* without awaiting it: where the result is the settled RateLimitInfo the
\* route goes by its allowed flag; where it is the promise of the asynchronous
\* checkRateLimit, its allowed flag is undefined, the route takes the branch
\* of a violation, and building the 429 response throws (resetAt is
\* undefined), which the catch block logs and answers with 500.
\* ------------------------------------------------------------------------
MiniPost(r) ==
  /\ slots[r].pc = "idle"
  /\ \E deviceToken \in DeviceTokens \cup {NoToken},
        headers \in IpHeaders({<<"ip2">>}, {<<"ip2">>}, {<<"ip1">>}),
        settled \in BOOLEAN, hasMessages \in BOOLEAN :
       LET ip == miniClientIp(headers)
           request == [IdleSlot EXCEPT !.entry = "mini", !.deviceToken = deviceToken,
                                       !.headers = headers,
                                       !.ip = ip, !.hasMessages = hasMessages]
           hasToken == deviceToken # NoToken
           identifier == IF hasToken THEN deviceToken ELSE ip
           info == checkRateLimit(rateLimitStore, lastCleanupAt, identifier,
                                  hasToken, now).info
           checked == IF ~settled THEN request
                      ELSE IF hasToken THEN [request EXCEPT !.tokenRate = RateOf(info)]
                      ELSE [request EXCEPT !.ipRate = RateOf(info)]
           warned == Logged(checked, LogRecord("console.warn [Rate Limit] Exceeded",
                                               FALSE, PlainIdentifier(request)))
       IN /\ RequestCheck(identifier, hasToken)
          /\ SetSlot(r, IF ~settled
                        THEN Finish(Logged(warned, LogRecord("console.error [API Error]",
                                                             FALSE, NoIdentifier)),
                                    "500")
                        ELSE IF ~info.allowed THEN Finish(warned, "429")
                        ELSE IF ~hasMessages THEN Finish(checked, "400")
                        ELSE [checked EXCEPT !.dispatched = TRUE, !.pc = "upstream"])
  /\ UNCHANGED <<now, hmacSecret>>
  /\ UNCHANGED schemaVars

\* the route after createChatCompletion: the completion, logged with its
\* cost, or the error, logged and answered with 503 for an upstream 429 and
\* with 500 for any other status
MiniRespond(r) ==
  LET slot == slots[r]
  IN /\ slot.pc = "upstream" /\ slot.entry = "mini"
     /\ \E outcome \in UpstreamOutcomes :
          SetSlot(r, IF outcome = "ok"
                     THEN Answer(Logged(slot, LogRecord("console.log [API Request]", FALSE,
                                                        PlainIdentifier(slot))),
                                 outcome, "200", "")
                     ELSE Answer(Logged(slot, LogRecord("console.error [API Error]", FALSE,
                                                        NoIdentifier)),
                                 outcome,
                                 IF StatusOf(outcome) = 429 THEN "503" ELSE "500", ""))
     /\ LimiterUnchanged
     /\ UNCHANGED <<now, hmacSecret>>
     /\ UNCHANGED schemaVars

NextMini == MiniPost("r1") \/ MiniRespond("r1") \/ AuthRecycle \/ Tick1 \/ TickWindow

SpecMini == Init /\ [][NextMini]_vars

\* ------------------------------------------------------------------------
\* Claims about the in-process limiter
\* ------------------------------------------------------------------------

\* C4: once `limit` checks of an identity were allowed inside a window, every
\* further check made with now <= resetAt is rejected with remaining = 0 and
\* reports the resetAt set by the first request of that window.
C4_RejectionKeepsWindowExpiry ==
  ( /\ lastCheck.valid
    /\ lastCheck.preLog.started
    /\ lastCheck.t <= lastCheck.preLog.firstResetAt
    /\ lastCheck.preLog.allowed >= lastCheck.limit )
  => ( /\ lastCheck.info.allowed = FALSE
       /\ lastCheck.info.remaining = 0
       /\ lastCheck.info.resetAt = lastCheck.preLog.firstResetAt )

\* a rejected check past the limit, made later than the window's first request
C4_Witness ==
  /\ lastCheck.valid
  /\ lastCheck.preLog.started
  /\ lastCheck.t <= lastCheck.preLog.firstResetAt
  /\ lastCheck.preLog.allowed >= lastCheck.limit
  /\ lastCheck.info.allowed = FALSE
  /\ lastCheck.t + WINDOW_MS # lastCheck.preLog.firstResetAt

\* C5: fixed hourly window. The first check of an identity and the first check
\* after now > resetAt set count = 1 and resetAt = now + WINDOW_MS; a later
\* allowed check with now <= resetAt adds exactly 1 to count, keeps resetAt and
\* returns remaining = limit - count; now = resetAt is still the old window.
C5_FixedWindow ==
  lastCheck.valid =>
    /\ (~lastCheck.existed \/ lastCheck.t > lastCheck.pre.resetAt)
         => ( /\ lastCheck.post.count = 1
              /\ lastCheck.post.resetAt = lastCheck.t + WINDOW_MS
              /\ lastCheck.info.allowed )
    /\ (lastCheck.existed /\ lastCheck.t <= lastCheck.pre.resetAt)
         => lastCheck.post.resetAt = lastCheck.pre.resetAt
    /\ (lastCheck.existed /\ lastCheck.t <= lastCheck.pre.resetAt
          /\ lastCheck.info.allowed)
         => ( /\ lastCheck.post.count = lastCheck.pre.count + 1
              /\ lastCheck.info.remaining = lastCheck.limit - lastCheck.post.count )

\* an allowed check made exactly at now = resetAt of a running window
C5_Witness ==
  /\ lastCheck.valid
  /\ lastCheck.existed
  /\ lastCheck.t = lastCheck.pre.resetAt
  /\ lastCheck.info.allowed
  /\ lastCheck.post.count = lastCheck.pre.count + 1

\* ------------------------------------------------------------------------
\* Claims about the tool schema validator
\* ------------------------------------------------------------------------
RECURSIVE NodesBelow(_, _, _)
\* every node of the tree under prop, with its path and its depth
NodesBelow(prop, path, depth) ==
  {[node |-> prop, path |-> path, depth |-> depth]}
  \cup UNION {NodesBelow(prop.properties[i].prop,
                         Append(path, prop.properties[i].name), depth + 1) :
                i \in 1..Len(prop.properties)}
  \cup UNION {NodesBelow(prop.items[i], Append(path, "items"), depth + 1) :
                i \in 1..Len(prop.items)}

\* every node of the parameters of tool; the root's properties are at depth 0
SchemaNodes(tool) ==
  UNION {NodesBelow(tool.parameters.properties[i].prop,
                    <<tool.parameters.properties[i].name>>, 0) :
           i \in 1..Len(tool.parameters.properties)}

ObjectNodes(tool) == {n \in SchemaNodes(tool) : n.node.type = "object"}

\* the two strict-mode conditions on one object level
StrictLevel(properties, required, additionalProperties) ==
  /\ additionalProperties = "false"
  /\ SeqToSet(Keys(properties)) \subseteq SeqToSet(required)

StrictEverywhere(tool) ==
  /\ StrictLevel(tool.parameters.properties, tool.parameters.required,
                 tool.parameters.additionalProperties)
  /\ \A n \in ObjectNodes(tool) :
        StrictLevel(n.node.properties, n.node.required, n.node.additionalProperties)

\* a tool that is valid apart from the strict-mode conditions
OtherwiseValid(tool) ==
  /\ TOOL_NAME_PATTERN(tool.name)
  /\ tool.description # ""
  /\ Len(tool.parameters.properties) > 0
  /\ SeqToSet(tool.parameters.required) \subseteq SeqToSet(Keys(tool.parameters.properties))
  /\ \A n \in SchemaNodes(tool) :
        /\ n.node.type \in VALID_TYPES
        /\ n.depth <= MAX_SCHEMA_DEPTH
        /\ SeqToSet(n.node.required) \subseteq SeqToSet(Keys(n.node.properties))

ErrorSet(errors) == {errors[i] : i \in 1..Len(errors)}

\* C9: at the root and at any nesting depth, each name of a node's required
\* list that is not a key of its properties map produces an error naming the
\* field and the dotted path and listing the available property names.
C9_RequiredNamesReported ==
  (lastSchema.called /\ lastSchema.tool.hasParameters)
  => /\ \A f \in SeqToSet(lastSchema.tool.parameters.required)
                 \ SeqToSet(Keys(lastSchema.tool.parameters.properties)) :
           \E e \in ErrorSet(lastSchema.errors) :
              /\ e.field = f
              /\ e.path = << >>
              /\ e.names = Keys(lastSchema.tool.parameters.properties)
     /\ \A n \in ObjectNodes(lastSchema.tool) :
           n.depth <= MAX_SCHEMA_DEPTH =>
             \A f \in SeqToSet(n.node.required) \ SeqToSet(Keys(n.node.properties)) :
               \E e \in ErrorSet(lastSchema.errors) :
                  /\ e.field = f
                  /\ e.path = n.path
                  /\ e.names = Keys(n.node.properties)

RECURSIVE VisitedDepth(_, _, _, _)
\* the greatest depth at which validateProperty is entered under these calls
VisitedDepth(children, toolName, depth, strictMode) ==
  IF children = << >> THEN 0
  ELSE LET n == validatePropertyNode(Head(children).prop, Head(children).path,
                                     toolName, depth, strictMode)
       IN Max(Max(depth, VisitedDepth(n.children, toolName, depth + 1, strictMode)),
              VisitedDepth(Tail(children), toolName, depth, strictMode))

ToolVisitedDepth(tool) ==
  VisitedDepth([i \in 1..Len(tool.parameters.properties) |->
                  [prop |-> tool.parameters.properties[i].prop,
                   path |-> <<tool.parameters.properties[i].name>>]],
               tool.name, 0, tool.strict)

\* C10: a schema nested beyond MAX_SCHEMA_DEPTH is validated with a result: the
\* validator reports, for each node just past the limit, an error naming its
\* path and the exceeded depth, and never enters a node below that.
C10_DepthLimit ==
  (lastSchema.called /\ lastSchema.tool.hasParameters)
  => /\ ToolVisitedDepth(lastSchema.tool) <= MAX_SCHEMA_DEPTH + 1
     /\ \A n \in SchemaNodes(lastSchema.tool) :
           n.depth = MAX_SCHEMA_DEPTH + 1 =>
             \E e \in ErrorSet(lastSchema.errors) :
                e.kind = "depth_exceeded" /\ e.path = n.path
     /\ \A e \in ErrorSet(lastSchema.errors) : Len(e.path) <= MAX_SCHEMA_DEPTH + 2

\* a schema with a node two levels past the limit, rejected for its depth
C10_Witness ==
  /\ lastSchema.called /\ lastSchema.tool.hasParameters
  /\ \E n \in SchemaNodes(lastSchema.tool) : n.depth = MAX_SCHEMA_DEPTH + 2
  /\ \E e \in ErrorSet(lastSchema.errors) : e.kind = "depth_exceeded"

\* C7: whatever was validated before, validateTools(tools) returns the
\* concatenation, in tool order, of validateToolSchema(t) for each tool t of the
\* list, so that each tool's own strict flag decides its errors.
C7_ValidateToolsIsConcatenation ==
  (lastValidation.called /\ ~lastValidation.mutated)
  => lastValidation.errors = validateEach(lastValidation.tools)

\* ------------------------------------------------------------------------
\* Claims about request authentication
\* ------------------------------------------------------------------------
\* a timestamp text that is a number of seconds inside the window at time t
InsideWindow(timestamp, t) ==
  /\ timestamp # << >>
  /\ \A i \in 1..Len(timestamp) : timestamp[i] \in Digits
  /\ t - DecimalValue(timestamp) * 1000 >= 0
  /\ t - DecimalValue(timestamp) * 1000 <= MAX_AGE_MS

\* the auth check has accepted the request of this slot
AuthAccepted(slot) == slot.auth = "valid"

\* C3: with a secret configured, the step that takes up a request whose
\* timestamp is inside the window accepts it iff its signature is the HMAC of
\* its body followed by its timestamp; and a request signed with a timestamp
\* inside the window, one byte of whose body or timestamp was changed while
\* the signature was kept, is rejected with 401.
C3_SignatureDecides ==
  [][\A r \in Reqs :
       LET slot == slots[r]
       IN (slot.entry = "rest" /\ slot.pc = "sent" /\ slots'[r].pc # "sent"
           /\ hmacSecret # "")
          => /\ InsideWindow(slot.timestamp, now)
                => (AuthAccepted(slots'[r])
                    <=> slot.signature = HmacHex(hmacSecret, slot.body \o slot.timestamp))
             /\ (slot.mutated /\ InsideWindow(slot.signedTimestamp, now))
                => slots'[r].status = "401"]_vars

\* ------------------------------------------------------------------------
\* Claims about the service
\* ------------------------------------------------------------------------
\* C1: on both entry points, a request whose upstream call has been issued was
\* authenticated, was allowed by the token bucket if it carries a device token
\* and by the IP bucket, and, if it carries tools, had them validated with
\* zero errors.
C1_UpstreamOnlyAfterAllChecks ==
  \A r \in Reqs :
    LET slot == slots[r]
    IN slot.pc = "upstream"
       => /\ slot.dispatched
          /\ slot.auth = "valid"
          /\ slot.deviceToken # NoToken
                => (slot.tokenRate.called /\ slot.tokenRate.allowed)
          /\ slot.ipRate.called /\ slot.ipRate.allowed
          /\ slot.tools # << >> => slot.validation = "passed"

RateLimited == {"429", "resource_exhausted"}

\* the request of this slot has gone past rate limiting
PastRateLimiting(slot) ==
  \/ slot.pc = "upstream"
  \/ slot.pc = "done" /\ (slot.dispatched \/ slot.status \in {"400", "invalid_argument"})

IdentityLimit(identifier) == LimitFor(identifier \in DeviceTokens)

\* C6: while the window of an identity lasts, however the requests that check
\* it interleave, the stored count is the number of its checks that returned
\* allowed, and that number is min(number of checks, limit).
C6_NoLostIncrement ==
  \A identifier \in Identifiers :
    LET log == windowLog[identifier]
    IN (log.started /\ now <= log.firstResetAt)
       => /\ StoreGet(rateLimitStore, identifier).count = log.allowed
          /\ log.allowed = Min(log.checks, IdentityLimit(identifier))

\* two requests in flight at the same time that have both checked the same
\* client IP, the bucket having been checked more often than its limit
C6_Witness ==
  /\ slots["r1"].pc = "ip_checked" /\ slots["r2"].pc = "ip_checked"
  /\ slots["r1"].ip = slots["r2"].ip
  /\ slots["r1"].ipRate.allowed # slots["r2"].ipRate.allowed
  /\ windowLog[slots["r1"].ip].checks > WITHOUT_TOKEN

\* ------------------------------------------------------------------------
\* Claims about the order of the stages
\* ------------------------------------------------------------------------
\* a request of this slot has been refused by the authentication check
AuthRejected(slot) == slot.pc = "done" /\ slot.auth = "rejected"

\* C11: the step in which a request is rejected by authentication (a header
\* missing, a timestamp stale or ahead of the clock, a signature that is not
\* valid, no secret configured) leaves the limiter as it was: no entry is
\* created, no count changes, no cleanup runs.
C11_AuthRejectionKeepsCounters ==
  [][\A r \in Reqs :
       (~AuthRejected(slots[r]) /\ AuthRejected(slots'[r]))
       => /\ rateLimitStore' = rateLimitStore
          /\ lastCleanupAt' = lastCleanupAt
          /\ windowLog' = windowLog]_vars

\* a request rejected by authentication while counters of its device token
\* and of its client IP exist
C11_Witness ==
  /\ AuthRejected(slots["r1"])
  /\ slots["r1"].status \in {"401", "500"}
  /\ ~slots["r1"].tokenRate.called /\ ~slots["r1"].ipRate.called
  /\ StoreGet(rateLimitStore, "t1").count > 0
  /\ StoreGet(rateLimitStore, "ip1").count > 0

\* the stages this request has been through came in the fixed order: a bucket
\* was checked only after authentication passed, the tools were validated
\* only after both buckets allowed the request, and the first failure ended it
StagesInOrder(slot) ==
  /\ (slot.tokenRate.called \/ slot.ipRate.called) => slot.auth = "valid"
  /\ slot.validation # "not_run"
       => /\ slot.auth = "valid"
          /\ slot.ipRate.called /\ ~Violated(slot).called
  /\ (AuthRejected(slot) \/ Violated(slot).called)
       => (slot.pc \notin {"upstream"} /\ ~slot.dispatched /\ slot.validation = "not_run")

\* C12: on both entry points the stages come in the order authentication,
\* rate limit, tool validation, dispatch, and the first failure ends the
\* request: the step that ends a request rejected by authentication or by the
\* rate limiter runs no tool validation (the validation cache is untouched and
\* the request carries no validation result), and no request has a validation
\* result without having passed authentication and both buckets.
C12_ValidationAfterAdmission ==
  [][\A r \in Reqs :
       /\ StagesInOrder(slots'[r])
       /\ (slots[r].pc # "done" /\ slots'[r].pc = "done"
           /\ (AuthRejected(slots'[r]) \/ Violated(slots'[r]).called))
          => validationCache' = validationCache]_vars

\* an RPC request ended by the rate limiter without validation, after the
\* tools of an earlier request were validated
C12_Witness ==
  \E r \in Reqs :
    /\ slots[r].pc = "done" /\ slots[r].entry = "rpc"
    /\ slots[r].status = "resource_exhausted" /\ Violated(slots[r]).called
    /\ slots[r].validation = "not_run"
    /\ validationCache # << >>

\* ------------------------------------------------------------------------
\* Claims about the 429 response
\* ------------------------------------------------------------------------
\* the slot's request has had its buckets checked and one of them denied it
SomeBucketDenied(slot) ==
  \/ slot.tokenRate.called /\ ~slot.tokenRate.allowed
  \/ slot.ipRate.called /\ ~slot.ipRate.allowed

\* n is the number of whole seconds, rounded up and never below zero, from
\* time t to resetAt
SecondsUntil(n, resetAt, t) ==
  /\ n >= 0
  /\ resetAt <= t => n = 0
  /\ resetAt > t => (1000 * (n - 1) < resetAt - t /\ resetAt - t <= 1000 * n)

\* C13: the step that answers a rate-limited request takes limit, reset time
\* and Retry-After from the binding bucket: the token bucket when it was
\* denied, whether or not the IP bucket was denied too, and the IP bucket only
\* when the token bucket allowed the request or was not checked; Retry-After
\* is ceil((resetAt - now) / 1000) seconds and never negative.
C13_BindingBucket ==
  [][\A r \in Reqs :
       LET slot == slots[r]
           answer == slots'[r]
       IN (slot.pc = "ip_checked" /\ answer.pc = "done" /\ SomeBucketDenied(slot))
          => /\ answer.status \in RateLimited
             /\ (slot.tokenRate.called /\ ~slot.tokenRate.allowed)
                  => (answer.limited.limit = slot.tokenRate.limit
                      /\ answer.limited.resetAt = slot.tokenRate.resetAt)
             /\ ~(slot.tokenRate.called /\ ~slot.tokenRate.allowed)
                  => (answer.limited.limit = slot.ipRate.limit
                      /\ answer.limited.resetAt = slot.ipRate.resetAt)
             /\ SecondsUntil(answer.limited.retryAfter, answer.limited.resetAt, now)]_vars

\* a 429 for a request both of whose buckets were denied, with different
\* limits and reset times, answered after the token window had expired
C13_Witness ==
  LET slot == slots["r1"]
  IN /\ slot.pc = "done" /\ slot.status = "429"
     /\ ~slot.tokenRate.allowed /\ ~slot.ipRate.allowed
     /\ slot.tokenRate.resetAt # slot.ipRate.resetAt
     /\ slot.limited.resetAt = slot.tokenRate.resetAt
     /\ slot.limited.retryAfter = 0 /\ now - slot.limited.resetAt >= 1000

\* ------------------------------------------------------------------------
\* Claims about the identities of the limiter
\* ------------------------------------------------------------------------
\* the count that holds for identifier at time t: that of its entry, or zero
\* when it has none or its window is over
CountAt(store, identifier, t) ==
  IF identifier \in DOMAIN store /\ t <= store[identifier].resetAt
  THEN store[identifier].count ELSE 0

\* C14: for every device-token text and every client-IP text, the text of the
\* token being that of the IP included, a check of the token identity leaves
\* the count of the IP identity as it was, and a check of the IP identity
\* leaves the count of the token identity as it was.
C14_IndependentCounters ==
  [][\A token \in HeaderTokens, ip \in ClientIps :
       /\ (lastCheck' # lastCheck /\ lastCheck'.hasDeviceToken
           /\ lastCheck'.identifier = token)
          => CountAt(rateLimitStore', ip, now) = CountAt(rateLimitStore, ip, now)
       /\ (lastCheck' # lastCheck /\ ~lastCheck'.hasDeviceToken
           /\ lastCheck'.identifier = ip)
          => CountAt(rateLimitStore', token, now)
             = CountAt(rateLimitStore, token, now)]_vars

\* the same holds when the token texts are not the text of a client IP
IndependentForDistinctTexts ==
  [][\A token \in HeaderTokens \ ClientIps, ip \in ClientIps :
       /\ (lastCheck' # lastCheck /\ lastCheck'.hasDeviceToken
           /\ lastCheck'.identifier = token)
          => CountAt(rateLimitStore', ip, now) = CountAt(rateLimitStore, ip, now)
       /\ (lastCheck' # lastCheck /\ ~lastCheck'.hasDeviceToken
           /\ lastCheck'.identifier = ip)
          => CountAt(rateLimitStore', token, now)
             = CountAt(rateLimitStore, token, now)]_vars

\* ------------------------------------------------------------------------
\* Claims about the limiter with a remote store
\* ------------------------------------------------------------------------
\* C15: with a remote store configured, a checkRateLimit call whose call to
\* the store fails throws nothing and returns what the in-process limiter
\* returns for the same identifier, limit and time, the in-process store
\* being left as that limiter leaves it.
C15_RemoteFailureFallsBack ==
  [][(lastRemote' # lastRemote /\ lastRemote'.outcome # "ok")
     => LET memory == checkRateLimitMemory(rateLimitStore, lastCleanupAt,
                                           lastRemote'.identifier,
                                           lastRemote'.limit, lastRemote'.t)
        IN /\ ~lastRemote'.threw
           /\ lastRemote'.t = now
           /\ lastRemote'.info = memory.info
           /\ rateLimitStore' = memory.store]_vars

\* a failed call answered by the in-process limiter with a rejection, the key
\* of the identity in the remote store being below its limit
C15_Witness ==
  /\ lastRemote.valid /\ lastRemote.outcome # "ok" /\ ~lastRemote.threw
  /\ ~lastRemote.info.allowed
  /\ StoreGet(rateLimitStore, lastRemote.identifier).count = lastRemote.limit
  /\ RedisGet(redisStore, RedisKey(lastRemote.identifier, now), now).count
       < lastRemote.limit

\* C16: in remote-store mode every check answered by the store reports, as
\* resetAt, the expiry its key (identity and window id) was given when it was
\* first incremented, a rejected check past the limit included.
C16_RemoteResetAtIsFirstExpiry ==
  (lastRemote.valid /\ lastRemote.outcome = "ok" /\ lastRemote.t = now)
  => lastRemote.info.resetAt
     = RedisGet(redisStore, RedisKey(lastRemote.identifier, now), now).firstExpiresAt

\* ------------------------------------------------------------------------
\* Claims about the timestamp window
\* ------------------------------------------------------------------------
\* the REST route takes up the request of slot r, which is correctly signed
\* by the shared secret over a body that is a JSON text and a timestamp that
\* is a number of seconds
TakesUpSigned(r) ==
  LET slot == slots[r]
  IN /\ slot.entry = "rest" /\ slot.pc = "sent" /\ slots'[r].pc # "sent"
     /\ hmacSecret # ""
     /\ JsonParse(slot.body).ok
     /\ slot.timestamp # << >>
     /\ \A i \in 1..Len(slot.timestamp) : slot.timestamp[i] \in Digits
     /\ slot.signature = HmacHex(hmacSecret, slot.body \o slot.timestamp)

\* now - timestamp in milliseconds, the timestamp being Unix seconds
AgeOf(timestamp, t) == t - DecimalValue(timestamp) * 1000

\* C17: a correctly signed request is accepted if and only if its timestamp
\* is within 5 minutes of the server clock on either side: ahead of it by at
\* most 5 minutes as well as behind it by at most 5 minutes.
C17_SymmetricWindow ==
  [][\A r \in Reqs :
       TakesUpSigned(r)
       => LET age == AgeOf(slots[r].timestamp, now)
          IN AuthAccepted(slots'[r]) <=> (age <= MAX_AGE_MS /\ -age <= MAX_AGE_MS)]_vars

C19_MissingHeaders401 ==
  [][\A r \in Reqs :
       LET slot == slots[r]
       IN (slot.entry = "rest" /\ slot.pc = "sent" /\ slots'[r].pc # "sent"
           /\ (~slot.signature.present \/ slot.timestamp = << >>))
          => /\ slots'[r].pc = "done" /\ ~slots'[r].dispatched
             /\ slots'[r].status = "401"]_vars

SignedRequest(slot) == <<slot.entry, slot.body, slot.timestamp, slot.signature>>

\* C22: of two requests with the same body, the same timestamp and the same
\* signature at most one is served: while one of them has been dispatched
\* upstream, the other, submitted inside the 5-minute window, is not.
C22_ReplayNotServed ==
  \A r1, r2 \in Reqs :
    (r1 # r2 /\ slots[r1].pc = "upstream" /\ slots[r2].pc = "upstream"
     /\ slots[r1].signature.present)
    => SignedRequest(slots[r1]) # SignedRequest(slots[r2])

\* ------------------------------------------------------------------------
\* Claims about the limits
\* ------------------------------------------------------------------------
\* C23: a request with a device token that is among the first WITH_TOKEN
\* requests of its window, all of them carrying that token and coming from one
\* client IP, is admitted by the rate limiter; a request without a token that
\* is among the first WITHOUT_TOKEN requests of its client IP is admitted.
C23_TokenCallerGetsTokenLimit ==
  \A r \in Reqs :
    LET slot == slots[r]
        ipLog == windowLog[slot.ip]
    IN slot.pc = "ip_checked"
       => /\ (slot.deviceToken # NoToken
              /\ windowLog[slot.deviceToken].checks <= WITH_TOKEN
              /\ ipLog.checks = windowLog[slot.deviceToken].checks
              /\ ipLog.firstResetAt = windowLog[slot.deviceToken].firstResetAt)
             => (slot.tokenRate.allowed /\ slot.ipRate.allowed)
          /\ (slot.deviceToken = NoToken /\ ipLog.checks <= WITHOUT_TOKEN)
             => slot.ipRate.allowed


RECURSIVE AllTypesValid(_)
\* every node of a properties map, at any depth, has one of the valid types
AllTypesValid(properties) ==
  \A i \in 1..Len(properties) :
    LET prop == properties[i].prop
    IN /\ prop.type \in VALID_TYPES
       /\ AllTypesValid(prop.properties)
       /\ \A j \in 1..Len(prop.items) :
            AllTypesValid(<<[name |-> "items", prop |-> prop.items[j]]>>)

HasDepthError(errors) ==
  \E i \in 1..Len(errors) : errors[i].kind = "depth_exceeded"

\* C24: validator and converter walk a schema alike: a tool that
\* validateToolSchema finds free of errors is converted by protoToOpenAITool
\* without a throw, and when every node of the schema has a valid type the
\* converter throws its depth error exactly when the validator reports that
\* the nesting depth is exceeded.
C24_SameTraversal ==
  lastSchema.called
  => /\ lastSchema.errors = << >> => lastSchema.converted.error = "none"
     /\ AllTypesValid(lastSchema.tool.parameters.properties)
        => (lastSchema.converted.error = "depth"
            <=> HasDepthError(lastSchema.errors))

C24_Witness ==
  /\ lastSchema.called
  /\ AllTypesValid(lastSchema.tool.parameters.properties)
  /\ lastSchema.converted.error = "depth"
  /\ HasDepthError(lastSchema.errors)

RECURSIVE PreservedProperties(_, _)
\* the properties map out has the names of the map in, in order, and each
\* property carries the description, enum, nested properties with their
\* required list, items and additionalProperties of its input
PreservedProperties(in, out) ==
  /\ Len(out) = Len(in)
  /\ \A i \in 1..Len(in) :
       LET p == in[i].prop
           q == out[i].prop
       IN /\ out[i].name = in[i].name
          /\ q.type = p.type
          /\ q.description = p.description
          /\ q.enum = p.enum
          /\ q.additionalProperties = p.additionalProperties
          /\ PreservedProperties(p.properties, q.properties)
          /\ Len(p.properties) > 0 => q.required = p.required
          /\ Len(q.items) = Len(p.items)
          /\ \A j \in 1..Len(p.items) :
               PreservedProperties(<<[name |-> "items", prop |-> p.items[j]]>>,
                                   <<[name |-> "items", prop |-> q.items[j]]>>)

\* C25: the definition sent upstream for a valid tool with parameters is an
\* object schema with the input's required list and additionalProperties at
\* the root, and with the input's description, enum, nested properties and
\* their required list, items and additionalProperties at every level below.
C25_SentPreservesSchema ==
  (lastSchema.called /\ lastSchema.errors = << >> /\ lastSchema.tool.hasParameters)
  => LET in == lastSchema.tool.parameters
         out == lastSchema.sent.parameters
     IN /\ out.type = "object"
        /\ out.required = in.required
        /\ out.additionalProperties = in.additionalProperties
        /\ PreservedProperties(in.properties, out.properties)

\* what the claim makes of an upstream failure on either entry point
Reclassified(entry, outcome) ==
  IF StatusOf(outcome) = 429
  THEN IF entry = "rest" THEN {"429", "503"} ELSE {"resource_exhausted"}
  ELSE IF StatusOf(outcome) >= 500
  THEN IF entry = "rest" THEN {"500"} ELSE {"internal"}
  ELSE IF entry = "rest" THEN {"400"} ELSE {"invalid_argument"}

\* C26: a failure of the upstream call is answered by its class: 429 as a
\* retryable 429/503 (ResourceExhausted), any other 4xx as 400
\* (InvalidArgument) that is not retryable, any 5xx as a retryable 500
\* (Internal).
C26_UpstreamReclassified ==
  \A r \in Reqs :
    LET slot == slots[r]
    IN (slot.pc = "done" /\ slot.upstream \in UpstreamOutcomes \ {"ok"})
       => /\ slot.status \in Reclassified(slot.entry, slot.upstream)
          /\ slot.entry = "rest"
             => slot.retryable = (IF StatusOf(slot.upstream) >= 400
                                     /\ StatusOf(slot.upstream) < 500
                                     /\ StatusOf(slot.upstream) # 429
                                  THEN "false" ELSE "true")

RECURSIVE NoRequiredLists(_)
\* no node of a properties map, at any depth, lists required names
NoRequiredLists(properties) ==
  \A i \in 1..Len(properties) :
    LET prop == properties[i].prop
    IN /\ prop.required = << >>
       /\ NoRequiredLists(prop.properties)
       /\ \A j \in 1..Len(prop.items) :
            NoRequiredLists(<<[name |-> "items", prop |-> prop.items[j]]>>)

\* C27: a strict tool with a valid name, a description and properties of
\* valid types validates with zero errors although neither its schema nor any
\* nested object lists required names, be additionalProperties declared
\* false or not declared at all.
C27_StrictWithoutRequired ==
  LET tool == lastSchema.tool
  IN (/\ lastSchema.called
      /\ tool.strict /\ tool.hasParameters
      /\ TOOL_NAME_PATTERN(tool.name) /\ tool.description # ""
      /\ Len(tool.parameters.properties) > 0
      /\ tool.parameters.required = << >>
      /\ tool.parameters.additionalProperties \in {"absent", "false"}
      /\ AllTypesValid(tool.parameters.properties)
      /\ NoRequiredLists(tool.parameters.properties)
      /\ ~HasDepthError(lastSchema.errors))
     => lastSchema.errors = << >>

HasNameError(errors) ==
  \E i \in 1..Len(errors) : errors[i].kind \in {"name_required", "name_invalid"}

\* C28: validateToolSchema reports an error about the name exactly when the
\* name is empty or has a character that is not a letter a-z or A-Z, a digit,
\* an underscore or a hyphen.
C28_NameErrorIffBadName ==
  lastSchema.called
  => (HasNameError(lastSchema.errors)
      <=> \/ Len(lastSchema.tool.name) = 0
          \/ \E i \in 1..Len(lastSchema.tool.name) :
               lastSchema.tool.name[i] \notin NameCharset)

C28_Witness ==
  /\ lastSchema.called
  /\ lastSchema.tool.name = <<"f", "å">>
  /\ HasNameError(lastSchema.errors)

\* the records of all requests that have reached the sink
SinkRecords == UNION {SeqToSet(slots[r].logs) : r \in Reqs}

\* C29: no record in the log sink carries the device token, the client IP,
\* the signature or the secret as written by the client or configured on the
\* server: an identifier in a record is the anonymized device token after
\* "token#" or the anonymized IP after "ip#".
C29_SinkHoldsNoRawIdentity ==
  \A record \in SinkRecords :
    \/ record.identifier = NoIdentifier
    \/ /\ record.identifier.anonymized
       /\ <<record.identifier.form, record.identifier.of>>
            \in {<<"token#", "deviceToken">>, <<"ip#", "ip">>}

\* C30: a request answered with a failure (authentication, rate limit,
\* validation or upstream error) has left in the log a record that carries
\* both the request id and an anonymized identifier.
C30_FailuresAreLogged ==
  \A r \in Reqs :
    LET slot == slots[r]
    IN (slot.pc = "done" /\ slot.status \notin {"200", "ok"})
       => \E i \in 1..Len(slot.logs) :
            slot.logs[i].requestId /\ slot.logs[i].identifier.anonymized
\* C31: a streaming request that has reached its handler had the token check
\* (when it carries a device token) and the IP check both made and both
\* allowed, as a unary request has.
C31_StreamingDualBucket ==
  \A r \in Reqs :
    LET slot == slots[r]
    IN (slot.stream /\ slot.pc = "upstream")
       => /\ slot.deviceToken # NoToken
                => (slot.tokenRate.called /\ slot.tokenRate.allowed)
          /\ slot.ipRate.called /\ slot.ipRate.allowed
\* C32: the client IP a request is rate limited by is cf-connecting-ip when
\* that header is not blank, else x-real-ip, else the first entry of
\* x-forwarded-for, else "0.0.0.0"; a header of lower priority never takes
\* the place of a higher one that is present.
C32_ClientIpPriority ==
  \A r \in Reqs :
    LET slot == slots[r]
        blank(h) == ~h.present \/ Trim(h.text) = << >>
        cf == slot.headers.cf
        realIp == slot.headers.realIp
        xff == slot.headers.xff
        first == IF xff.present THEN Trim(FirstEntry(xff.text)) ELSE << >>
    IN slot.pc = "upstream"
       => /\ ~blank(cf) => slot.ip = Join(Trim(cf.text))
          /\ (blank(cf) /\ ~blank(realIp)) => slot.ip = Join(Trim(realIp.text))
          /\ (blank(cf) /\ blank(realIp) /\ first # << >>) => slot.ip = Join(first)
          /\ (blank(cf) /\ blank(realIp) /\ first = << >>) => slot.ip = "0.0.0.0"
\* C33: where every identity is checked with one identity class, each entry of
\* the in-process store has 0 <= count <= limit, and a rejected check leaves
\* the entry of its identity as it was, count and resetAt.
C33_CountWithinLimit ==
  /\ \A identifier \in DOMAIN rateLimitStore :
       /\ rateLimitStore[identifier].count >= 0
       /\ rateLimitStore[identifier].count <= IdentityLimit(identifier)
  /\ (lastCheck.valid /\ ~lastCheck.info.allowed)
       => /\ lastCheck.existed
          /\ lastCheck.post = lastCheck.pre

\* a rejected check of an identity whose entry is at its limit
C33_Witness ==
  /\ lastCheck.valid /\ ~lastCheck.info.allowed
  /\ lastCheck.existed
  /\ lastCheck.pre.count = IdentityLimit(lastCheck.identifier)
  /\ StoreGet(rateLimitStore, lastCheck.identifier) = lastCheck.pre
\* C34: a request refused with 429 / ResourceExhausted has taken nothing from
\* the other bucket: no check made for it returned allowed, an allowed check
\* being one that has added 1 to the count of its identity.
C34_RejectedTakesNoQuota ==
  \A r \in Reqs :
    LET slot == slots[r]
    IN (slot.pc = "done" /\ slot.status \in RateLimited)
       => /\ ~(slot.tokenRate.called /\ slot.tokenRate.allowed)
          /\ ~(slot.ipRate.called /\ slot.ipRate.allowed)
\* C35: with a remote store whose calls may fail, the checks of one identity
\* that return allowed inside one window are at most `limit`, the checks
\* answered by the remote store and those answered by the in-process
\* fallback taken together: a check that the remote store answers with
\* allowed, added to the checks the fallback has allowed in its running
\* window (the count of the in-process entry), stays within the limit.
C35_RemoteAndFallbackWithinLimit ==
  LET fallback == StoreGet(rateLimitStore, lastRemote.identifier)
  IN (/\ lastRemote.valid /\ lastRemote.t = now
      /\ lastRemote.outcome = "ok" /\ lastRemote.info.allowed
      /\ now <= fallback.resetAt)
     => fallback.count + 1 <= lastRemote.limit
\* C36: for the checks of one identity inside one window, the n-th since the
\* window was opened by its first check, the in-process and the remote
\* limiter return the same: allowed with remaining = limit - n for n <= limit
\* (0 for the limit-th), rejected with remaining = 0 for every later one.
C36_SameAdmission ==
  LET log == lastCheck.preLog
      n == IF log.started /\ lastCheck.t <= log.firstResetAt THEN log.checks + 1 ELSE 1
      expected(info) ==
        /\ info.allowed = (n <= lastCheck.limit)
        /\ info.remaining = Max(lastCheck.limit - n, 0)
  IN (lastCheck.valid /\ lastRemote.valid)
     => /\ expected(lastCheck.info)
        /\ expected(lastRemote.info)
\* C38: the array validateTools returns is not the array the cache holds, on
\* a miss as on a hit: a caller changing the array it was given changes no
\* cache entry, and with it nothing a later call returns.
C38_ReturnedArrayNotAliased ==
  [][(lastValidation.called /\ lastValidation'.mutated /\ ~lastValidation.mutated)
     => validationCache' = validationCache]_vars
\* C37: lazy cleanup cannot be observed.  It runs only when 5 minutes or more
\* have passed since it last ran, it deletes only entries with now > resetAt,
\* and every check returns what a limiter that never deletes an entry
\* returns: that limiter's entry of an identity is the count of allowed
\* checks and the expiry of the window its checks have opened.
C37_CleanupIsTransparent ==
  [][(lastCheck' # lastCheck)
     => LET limit == lastCheck'.limit
            log == windowLog[lastCheck'.identifier]
            fresh == ~log.started \/ now > log.firstResetAt
            count == IF fresh THEN 0 ELSE log.allowed
            resetAt == IF fresh THEN now + WINDOW_MS ELSE log.firstResetAt
        IN /\ lastCheck'.info =
                IF count >= limit
                THEN [allowed |-> FALSE, limit |-> limit, remaining |-> 0,
                      resetAt |-> resetAt]
                ELSE [allowed |-> TRUE, limit |-> limit,
                      remaining |-> limit - (count + 1), resetAt |-> resetAt]
           /\ lastCleanupAt' # lastCleanupAt
                => (now - lastCleanupAt >= CLEANUP_INTERVAL_MS /\ lastCleanupAt' = now)
           /\ \A identifier \in DOMAIN rateLimitStore \ DOMAIN rateLimitStore' :
                now > rateLimitStore[identifier].resetAt]_vars

\* the check of an identity whose expired entry a cleanup, run by the check
\* of another identity, has deleted
C37_Witness ==
  /\ lastCheck.valid /\ lastCheck.t = now
  /\ ~lastCheck.existed
  /\ lastCheck.preLog.started
  /\ lastCleanupAt > StartNow
\* C39: the logging interceptor changes no outcome.  A request the rate
\* limiter has let through reaches the handler, and what becomes of it is
\* what the handler makes of it: the call upstream, or the handler's own
\* error (InvalidArgument), in every configuration.
C39_LoggingKeepsOutcome ==
  [][\A r \in Reqs :
       (/\ slots[r].entry = "rpc" /\ slots[r].pc = "ip_checked"
        /\ ~Violated(slots[r]).called
        /\ slots'[r] # slots[r])
       => \/ slots'[r].pc = "upstream"
          \/ slots'[r].pc = "done" /\ slots'[r].status = "invalid_argument"]_vars
====
